---- MODULE Spec2Model ----
(***************************************************************************)
(* A model of the rlox tree-walking interpreter: the resolver              *)
(* (interpreter/src/resolver.rs), the environment chain                    *)
(* (interpreter/src/environment.rs) and the evaluator                      *)
(* (interpreter/src/interpreter.rs, function.rs, callable.rs).             *)
(*                                                                         *)
(* Option<T> is modelled as a sequence of length 0 (None) or 1 (Some).     *)
(* A HashMap is modelled as a function whose DOMAIN is the set of keys.    *)
(***************************************************************************)
EXTENDS Integers, Sequences, FiniteSets, TLC

VARIABLES
    source,       \* the statement list handed to the pipeline (Vec<Stmt>)
    parseErrors,  \* the errors the parser recorded for the source
    pc,           \* position of the driver / Interpreter::run
    scopes,       \* Resolver.scopes
    current_fun,  \* Resolver.current_fun
    locals,       \* Resolver.locals : ScopeId -> hop count
    heap,         \* the environment frames, shared by reference (Rc)
    environment,  \* Interpreter.environment : index of the current frame
    next_id,      \* ProcessUniqueId source for LoxFunction.id
    idx,          \* index of the next top-level statement in run's loop
    errors,       \* the error list run is collecting
    result,       \* what the driver returned: <<>> while running
    out,          \* lines printed by println!
    now,          \* the wall clock, in milliseconds, read by clock()
    log,          \* history of evaluator events (for stating properties)
    env_rs,       \* an Environment of src/env.rs (scopes, current_scope)
    scanner,      \* a Scanner of src/scanner.rs, <<>> when none is built
    parser,       \* a Parser of the parser crate, <<>> when none is built
    process       \* the process main runs in, <<>> when main is not run

\* the objects of the front end and of src/env.rs, exercised on their own,
\* and the process around the interpreter
units == <<env_rs, scanner, parser, process>>

vars == <<source, parseErrors, pc, scopes, current_fun, locals, heap,
          environment, next_id, idx, errors, result, out, now, log,
          env_rs, scanner, parser, process>>

-----------------------------------------------------------------------------
(* Bounds *)

MaxFrags == 2

MaxClock == 1

-----------------------------------------------------------------------------
(* Generic helpers *)

EmptyMap == [x \in {} |-> TRUE]

None == <<>>

Some(x) == <<x>>

Insert(map, key, val) == (key :> val) @@ map

Last(s) == s[Len(s)]

Front(s) == SubSeq(s, 1, Len(s) - 1)

-----------------------------------------------------------------------------
(* Tokens and AST (ast crate) *)

Tok(tt, lexeme, line) == [token_type |-> tt, lexeme |-> lexeme, line |-> line]

Ident(lexeme, line) == Tok("Identifier", lexeme, line)

Literal(v) == [k |-> "Literal", value |-> v]

Variable(name, id) == [k |-> "Variable", name |-> name, scope_id |-> id]

Assign(name, value, id) ==
    [k |-> "Assign", name |-> name, value |-> value, scope_id |-> id]

Binary(left, operator, right) ==
    [k |-> "Binary", left |-> left, operator |-> operator, right |-> right]

Call(callee, paren, arguments) ==
    [k |-> "Call", callee |-> callee, paren |-> paren, arguments |-> arguments]

Grouping(expression) == [k |-> "Grouping", expression |-> expression]

Logical(left, operator, right) ==
    [k |-> "Logical", left |-> left, operator |-> operator, right |-> right]

Unary(operator, right) ==
    [k |-> "Unary", operator |-> operator, right |-> right]

BlockStmt(statements) == [k |-> "Block", statements |-> statements]

ExprStmt(expression) == [k |-> "Expr", expression |-> expression]

FunStmt(name, parameters, body) ==
    [k |-> "Fun", name |-> name, parameters |-> parameters, body |-> body]

IfStmt(condition, then_branch, else_branch) ==
    [k |-> "If", condition |-> condition, then_branch |-> then_branch,
     else_branch |-> else_branch]

PrintStmt(expression) == [k |-> "Print", expression |-> expression]

ReturnStmt(keyword, value) ==
    [k |-> "Return", keyword |-> keyword, value |-> value]

WhileStmt(condition, body) ==
    [k |-> "While", condition |-> condition, body |-> body]

VarStmt(name, initializer) ==
    [k |-> "Var", name |-> name, initializer |-> initializer]

-----------------------------------------------------------------------------
(* Runtime values (interpreter/src/value.rs) *)

Nil == [t |-> "Nil"]

Boolean(b) == [t |-> "Boolean", b |-> b]

Number(n) == [t |-> "Number", n |-> n]

String(s) == [t |-> "String", s |-> s]

LoxFunction(declaration, closure, id) ==
    [t |-> "Function", declaration |-> declaration, closure |-> closure,
     id |-> id]

NativeFunction(name, arity) ==
    [t |-> "NativeFunction", name |-> name, arity |-> arity]

-----------------------------------------------------------------------------
(* Errors (interpreter/src/error.rs) *)

NoErr == [line |-> 0, msg |-> ""]

ResolverError(line, msg) == [line |-> line, msg |-> msg]

RuntimeError(line, msg) == [line |-> line, msg |-> msg]

MsgAlreadyDeclared == "Variable with this name already declared in this scope."

MsgTopLevelReturn == "Cannot return from top-level code."

MsgOwnInitializer == "Cannot read local variable in its own intializer."

-----------------------------------------------------------------------------
(* Resolver (interpreter/src/resolver.rs).                                 *)
(* The resolver state is threaded as a record r; r.err is the pending      *)
(* Err(..) of a ResolverResult: once it is set, the `?` operators return   *)
(* from every enclosing visit without running the code that follows them.  *)

ResolverState(sc, cf, lc) ==
    [scopes |-> sc, current_fun |-> cf, locals |-> lc, err |-> NoErr]

Failed(r) == r.err # NoErr

push_scope(r) == [r EXCEPT !.scopes = Append(@, EmptyMap)]

pop_scope(r) ==
    [r EXCEPT !.scopes = IF Len(@) = 0 THEN @ ELSE Front(@)]

declare(r, token) ==
    IF Len(r.scopes) > 0
    THEN IF token.lexeme \in DOMAIN Last(r.scopes)
         THEN [r EXCEPT !.err = ResolverError(token.line, MsgAlreadyDeclared)]
         ELSE [r EXCEPT !.scopes[Len(r.scopes)] =
                            Insert(@, token.lexeme, FALSE)]
    ELSE r

define(r, token) ==
    IF Len(r.scopes) > 0
    THEN [r EXCEPT !.scopes[Len(r.scopes)] = Insert(@, token.lexeme, TRUE)]
    ELSE r

\* the scopes holding name, as indices into r.scopes
ScopesWith(r, name) ==
    {i \in 1..Len(r.scopes) : name \in DOMAIN r.scopes[i]}

Max(S) == CHOOSE m \in S : \A x \in S : x <= m

\* resolve_local with the loop stopped before the outermost scope (i > 0)
resolve_local_skip_outermost(r, scope_id, name) ==
    IF ScopesWith(r, name) \ {1} = {}
    THEN r
    ELSE [r EXCEPT !.locals =
             Insert(@, scope_id,
                    Len(r.scopes) - Max(ScopesWith(r, name) \ {1}))]

resolve_local(r, scope_id, name) ==
    IF ScopesWith(r, name) = {}
    THEN r
    ELSE [r EXCEPT !.locals =
             Insert(@, scope_id, Len(r.scopes) - Max(ScopesWith(r, name)))]

RECURSIVE resolve_expr(_, _)
RECURSIVE resolve_exprs(_, _, _)

resolve_exprs(r, exprs, i) ==
    IF i > Len(exprs) \/ Failed(r) THEN r
    ELSE resolve_exprs(resolve_expr(r, exprs[i]), exprs, i + 1)

resolve_expr(r, expr) ==
    CASE expr.k = "Assign" ->
           LET r1 == resolve_expr(r, expr.value)
           IN  IF Failed(r1) THEN r1
               ELSE resolve_local(r1, expr.scope_id, expr.name.lexeme)
      [] expr.k = "Binary" ->
           LET r1 == resolve_expr(r, expr.left)
           IN  IF Failed(r1) THEN r1 ELSE resolve_expr(r1, expr.right)
      [] expr.k = "Call" ->
           LET r1 == resolve_expr(r, expr.callee)
           IN  IF Failed(r1) THEN r1 ELSE resolve_exprs(r1, expr.arguments, 1)
      [] expr.k = "Grouping" -> resolve_expr(r, expr.expression)
      [] expr.k = "Literal" -> r
      [] expr.k = "Logical" ->
           LET r1 == resolve_expr(r, expr.left)
           IN  IF Failed(r1) THEN r1 ELSE resolve_expr(r1, expr.right)
      [] expr.k = "Unary" -> resolve_expr(r, expr.right)
      [] expr.k = "Variable" ->
           LET name == expr.name.lexeme
           IN  IF /\ Len(r.scopes) > 0
                  /\ name \in DOMAIN Last(r.scopes)
                  /\ Last(r.scopes)[name] = FALSE
               THEN [r EXCEPT !.err =
                        ResolverError(expr.name.line, MsgOwnInitializer)]
               ELSE resolve_local(r, expr.scope_id, name)

RECURSIVE resolve_stmt(_, _)
RECURSIVE resolve_stmts(_, _, _)
RECURSIVE resolve_params(_, _, _)

\* `for statement in .. { self.resolve_stmt(&statement)?; }`
resolve_stmts(r, stmts, i) ==
    IF i > Len(stmts) \/ Failed(r) THEN r
    ELSE resolve_stmts(resolve_stmt(r, stmts[i]), stmts, i + 1)

\* `for param in .. { self.declare(&param)?; self.define(&param); }`
resolve_params(r, params, i) ==
    IF i > Len(params) \/ Failed(r) THEN r
    ELSE LET r1 == declare(r, params[i])
         IN  IF Failed(r1) THEN r1
             ELSE resolve_params(define(r1, params[i]), params, i + 1)

resolve_function(r, function, fun_type) ==
    LET enclosing_fun == r.current_fun
        r1 == push_scope([r EXCEPT !.current_fun = Some(fun_type)])
        r2 == resolve_params(r1, function.parameters, 1)
        r3 == resolve_stmts(r2, function.body, 1)
    IN  IF Failed(r3) THEN r3
        ELSE [pop_scope(r3) EXCEPT !.current_fun = enclosing_fun]

resolve_stmt(r, stmt) ==
    CASE stmt.k = "Block" ->
           LET r1 == resolve_stmts(push_scope(r), stmt.statements, 1)
           IN  IF Failed(r1) THEN r1 ELSE pop_scope(r1)
      [] stmt.k = "Expr" -> resolve_expr(r, stmt.expression)
      [] stmt.k = "Fun" ->
           LET r1 == declare(r, stmt.name)
           IN  IF Failed(r1) THEN r1
               ELSE resolve_function(define(r1, stmt.name), stmt, "Function")
      [] stmt.k = "If" ->
           LET r1 == resolve_expr(r, stmt.condition)
               r2 == IF Failed(r1) THEN r1
                     ELSE resolve_stmt(r1, stmt.then_branch)
           IN  IF Failed(r2) \/ stmt.else_branch = None THEN r2
               ELSE resolve_stmt(r2, stmt.else_branch[1])
      [] stmt.k = "Print" -> resolve_expr(r, stmt.expression)
      [] stmt.k = "Return" ->
           IF r.current_fun = None
           THEN [r EXCEPT !.err =
                    ResolverError(stmt.keyword.line, MsgTopLevelReturn)]
           ELSE IF stmt.value = None THEN r
                ELSE resolve_expr(r, stmt.value[1])
      [] stmt.k = "While" ->
           LET r1 == resolve_expr(r, stmt.condition)
           IN  IF Failed(r1) THEN r1 ELSE resolve_stmt(r1, stmt.body)
      [] stmt.k = "Var" ->
           LET r1 == declare(r, stmt.name)
               r2 == IF Failed(r1) \/ stmt.initializer = None THEN r1
                     ELSE resolve_expr(r1, stmt.initializer[1])
           IN  IF Failed(r2) THEN r2 ELSE define(r2, stmt.name)

\* the loop of Resolver::resolve: acc = [r |-> resolver, errors |-> Vec]
RECURSIVE resolve_loop(_, _, _)

resolve_loop(acc, stmts, i) ==
    IF i > Len(stmts) THEN acc
    ELSE LET r1 == resolve_stmt(acc.r, stmts[i])
         IN  resolve_loop(
                 IF Failed(r1)
                 THEN [r |-> [r1 EXCEPT !.err = NoErr],
                       errors |-> Append(acc.errors, r1.err)]
                 ELSE [r |-> r1, errors |-> acc.errors],
                 stmts, i + 1)

resolve(r, stmts) ==
    LET acc == resolve_loop([r |-> push_scope(r), errors |-> <<>>], stmts, 1)
    IN  [r |-> pop_scope(acc.r), errors |-> acc.errors]

-----------------------------------------------------------------------------
(* Environment (interpreter/src/environment.rs, mod v2).                   *)
(* A frame is [enclosing |-> Option<frame>, values |-> Scope]; h is the    *)
(* store of all frames and a frame is named by its index in h, so that a   *)
(* frame held by several owners (Rc) is one and the same frame.            *)

Environment_new(enclosing) == [enclosing |-> enclosing, values |-> EmptyMap]

\* define writing through to a frame of the chain that already binds name
env_define_overwriting(h, env, name, value) ==
    LET RECURSIVE binder(_)
        binder(f) == IF name \in DOMAIN h[f].values THEN f
                     ELSE IF h[f].enclosing = None THEN env
                          ELSE binder(h[f].enclosing[1])
    IN  [h EXCEPT ![binder(env)].values = Insert(@, name, value)]

env_define(h, env, name, value) ==
    [h EXCEPT ![env].values = Insert(@, name, value)]

MsgUndefinedVariableDot(name) == "Undefined variable '" \o name \o "'."

MsgUndefinedVariable(name) == "Undefined variable '" \o name \o "'"

\* the frame `distance` enclosing steps out of env, None when the chain ends
RECURSIVE ancestor(_, _, _)

ancestor(h, env, distance) ==
    IF distance = 0 THEN Some(env)
    ELSE IF h[env].enclosing = None THEN None
         ELSE ancestor(h, h[env].enclosing[1], distance - 1)

\* the nearest frame of the chain starting at env that binds name
RECURSIVE binding_frame(_, _, _)

binding_frame(h, env, name) ==
    IF name \in DOMAIN h[env].values THEN Some(env)
    ELSE IF h[env].enclosing = None THEN None
         ELSE binding_frame(h, h[env].enclosing[1], name)

\* assign that creates the binding in this frame when no frame has it
env_assign_or_define(h, env, name, value) ==
    LET f == binding_frame(h, env, name)
    IN  [h |-> [h EXCEPT ![IF f = None THEN env ELSE f[1]].values =
                             Insert(@, name, value)],
         err |-> None]

\* Result<(), String> paired with the store
env_assign(h, env, name, value) ==
    LET f == binding_frame(h, env, name)
    IN  IF f = None
        THEN [h |-> h, err |-> Some(MsgUndefinedVariableDot(name))]
        ELSE [h |-> [h EXCEPT ![f[1]].values = Insert(@, name, value)],
              err |-> None]

env_assign_at(h, env, name, value, distance) ==
    LET a == ancestor(h, env, distance)
    IN  IF a = None
        THEN [h |-> h, err |-> Some(MsgUndefinedVariable(name))]
        ELSE env_assign(h, a[1], name, value)

\* Option<Value>
env_get(h, env, name) ==
    LET f == binding_frame(h, env, name)
    IN  IF f = None THEN None ELSE Some(h[f[1]].values[name])

\* get_at that starts the lookup at the frame it is called on
env_get_at_nearest(h, env, name, distance) == env_get(h, env, name)

env_get_at(h, env, name, distance) ==
    LET a == ancestor(h, env, distance)
    IN  IF a = None THEN None ELSE env_get(h, a[1], name)

\* define_native_functions (interpreter/src/native.rs)
define_native_functions(h, env) ==
    env_define(h, env, "clock", NativeFunction("clock", 0))

-----------------------------------------------------------------------------
(* Evaluator (interpreter/src/interpreter.rs).                             *)
(* The evaluator state is threaded as a record st:                         *)
(*   heap, environment, next_id, out   the interpreter's state             *)
(*   locals                            resolver.locals (read only)         *)
(*   now                               the wall clock read by clock()      *)
(*   top, calls, log                   history: index of the top-level     *)
(*                                     statement, the active calls, events *)
(* An InterpreterResult is OkNone, OkSome(v) or Err(e).                    *)

OkNone == [k |-> "None"]

OkSome(v) == [k |-> "Some", v |-> v]

Err(e) == [k |-> "Err", e |-> e]

\* panic!(..): the thread unwinds and the process ends
Panic(msg) == [k |-> "Panic", msg |-> msg]

\* what `?` hands on (an Err) and what nothing stops (a panic)
Unwinds(res) == res.k \in {"Err", "Panic"}

R(st, res) == [st |-> st, res |-> res]

Emit(st, event) == [st EXCEPT !.log = Append(@, event)]

runtime_error_result(st, token, msg) ==
    R(Emit(st, [ev |-> "err", top |-> st.top, line |-> token.line,
                msg |-> msg]),
      Err(RuntimeError(token.line, msg)))

\* truthiness with 0 and "" falsey as well
is_truthy_loose(val) ==
    CASE val.t = "Nil" -> FALSE
      [] val.t = "Boolean" -> val.b
      [] val.t = "Number" -> val.n # 0
      [] val.t = "String" -> val.s # ""
      [] OTHER -> TRUE

is_truthy(val) ==
    CASE val.t = "Nil" -> FALSE
      [] val.t = "Boolean" -> val.b
      [] OTHER -> TRUE

is_equal(a, b) ==
    CASE a.t = "Boolean" -> b.t = "Boolean" /\ a.b = b.b
      [] a.t = "Function" -> b.t = "Function" /\ a.id = b.id
      [] a.t = "Nil" -> b.t = "Nil"
      [] a.t = "Number" -> b.t = "Number" /\ a.n = b.n
      [] a.t = "String" -> b.t = "String" /\ a.s = b.s
      [] a.t = "NativeFunction" ->
           b.t = "NativeFunction" /\ a.name = b.name /\ a.arity = b.arity

\* f64 division, kept exact: the quotient when it is an integer, else the
\* unevaluated fraction (a zero divisor gives the IEEE infinities and NaN)
Quotient(l, r) ==
    IF r # 0 /\ l % r = 0 THEN Number(l \div r)
    ELSE [t |-> "Number", fraction |-> <<l, r>>]

\* panic!("Invalid binary expression. This is an uncaught parse error")
binary_panic(st, operator) ==
    R(Emit(st, [ev |-> "panic", top |-> st.top, line |-> operator.line]),
      Panic("Invalid binary expression. This is an uncaught parse error"))

eval_binary_expr(st, operator, left, right) ==
    LET tt == operator.token_type
    IN  CASE tt = "EqualEqual" -> R(st, OkSome(Boolean(is_equal(left, right))))
          [] tt = "BangEqual" -> R(st, OkSome(Boolean(~is_equal(left, right))))
          [] OTHER ->
             CASE left.t = "Number" ->
                    IF right.t = "Number"
                    THEN CASE tt = "Plus" ->
                                R(st, OkSome(Number(left.n + right.n)))
                           [] tt = "Minus" ->
                                R(st, OkSome(Number(left.n - right.n)))
                           [] tt = "Star" ->
                                R(st, OkSome(Number(left.n * right.n)))
                           [] tt = "Slash" ->
                                R(st, OkSome(Quotient(left.n, right.n)))
                           [] tt = "Greater" ->
                                R(st, OkSome(Boolean(left.n > right.n)))
                           [] tt = "GreaterEqual" ->
                                R(st, OkSome(Boolean(left.n >= right.n)))
                           [] tt = "Less" ->
                                R(st, OkSome(Boolean(left.n < right.n)))
                           [] tt = "LessEqual" ->
                                R(st, OkSome(Boolean(left.n <= right.n)))
                           [] OTHER -> binary_panic(st, operator)
                    ELSE runtime_error_result(st, operator,
                             "Right operand must be a Number.")
               [] left.t = "String" ->
                    IF right.t = "String"
                    THEN CASE tt = "Plus" ->
                                R(st, OkSome(String(left.s \o right.s)))
                           [] OTHER -> binary_panic(st, operator)
                    ELSE runtime_error_result(st, operator,
                             "Right operand must be a String.")
               [] OTHER ->
                    runtime_error_result(st, operator,
                        "Left operand must be a Number or a String.")

\* Value::print (interpreter/src/value.rs)
print(val) ==
    CASE val.t = "Nil" -> "nil"
      [] val.t = "Boolean" -> IF val.b THEN "true" ELSE "false"
      [] val.t = "Function" -> "<fun " \o val.declaration.name.lexeme \o ">"
      [] val.t = "Number" -> ToString(val.n)
      [] val.t = "String" -> val.s
      [] val.t = "NativeFunction" -> "<native fun " \o val.name \o ">"

\* history only: what a variable access at the current position sees
Access(st, kind, name, scope_id) ==
    LET resolved == scope_id \in DOMAIN st.locals
        target == IF resolved
                  THEN ancestor(st.heap, st.environment, st.locals[scope_id])
                  ELSE Some(st.environment)
        found == IF target = None THEN None
                 ELSE binding_frame(st.heap, target[1], name)
    IN  [ev |-> kind, top |-> st.top, name |-> name, scope_id |-> scope_id,
         hops |-> IF resolved THEN Some(st.locals[scope_id]) ELSE None,
         env |-> st.environment, target |-> target, found |-> found,
         bound |-> target # None
                     /\ name \in DOMAIN st.heap[target[1]].values,
         call |-> st.calls]

look_up_var(st, name, scope_id) ==
    LET value == IF scope_id \in DOMAIN st.locals
                 THEN env_get_at(st.heap, st.environment, name,
                                 st.locals[scope_id])
                 ELSE env_get(st.heap, st.environment, name)
    IN  [st |-> Emit(st, Access(st, "read", name, scope_id)),
         value |-> value]

assign_var(st, name, value, scope_id) ==
    LET a == IF scope_id \in DOMAIN st.locals
             THEN env_assign_at(st.heap, st.environment, name, value,
                                st.locals[scope_id])
             ELSE env_assign(st.heap, st.environment, name, value)
    IN  [st |-> [Emit(st, Access(st, "write", name, scope_id))
                   EXCEPT !.heap = a.h],
         err |-> a.err]

define_var(st, name, value) ==
    [st EXCEPT !.heap = env_define(@, st.environment, name, value)]

-----------------------------------------------------------------------------
(* Statements, expressions and calls                                       *)
(* (interpreter.rs visit_stmt / visit_expr, callable.rs, function.rs)      *)

\* the names a program of the model may use
Names == {"a", "b", "c", "n", "x", "y", "f", "g", "show", "count",
          "makeCounter", "inner", "outer", "get", "clock"}

RECURSIVE visit_expr(_, _)
RECURSIVE visit_stmt(_, _)
RECURSIVE visit_args(_, _, _, _)
RECURSIVE exec_stmts(_, _, _)
RECURSIVE while_loop(_, _)
RECURSIVE bind_params(_, _, _, _)

\* the arguments evaluated from the last to the first
RECURSIVE visit_args_from_right(_, _, _, _)

visit_args_from_right(st, args, i, acc) ==
    IF i > Len(args) THEN [st |-> st, res |-> OkNone, values |-> acc]
    ELSE LET r == visit_expr(st, args[Len(args) + 1 - i])
         IN  IF Unwinds(r.res)
             THEN [st |-> r.st, res |-> r.res, values |-> acc]
             ELSE visit_args_from_right(r.st, args, i + 1,
                                        <<r.res.v>> \o acc)

\* `for arg in .. { arguments.push((self.visit_expr(arg)?).unwrap()); }`
visit_args(st, args, i, acc) ==
    IF i > Len(args) THEN [st |-> st, res |-> OkNone, values |-> acc]
    ELSE LET r == visit_expr(st, args[i])
         IN  IF Unwinds(r.res)
             THEN [st |-> r.st, res |-> r.res, values |-> acc]
             ELSE visit_args(r.st, args, i + 1, Append(acc, r.res.v))

\* the statement loop of execute_block with Ok(Some(v)) handled as Ok(None)
RECURSIVE exec_stmts_no_break(_, _, _)

exec_stmts_no_break(st, statements, i) ==
    IF i > Len(statements) THEN R(st, OkNone)
    ELSE LET r == visit_stmt(st, statements[i])
         IN  IF ~Unwinds(r.res)
             THEN exec_stmts_no_break(r.st, statements, i + 1)
             ELSE r

\* the statement loop of execute_block, with its two `break`s
exec_stmts(st, statements, i) ==
    IF i > Len(statements) THEN R(st, OkNone)
    ELSE LET r == visit_stmt(st, statements[i])
         IN  IF r.res.k = "None" THEN exec_stmts(r.st, statements, i + 1)
             ELSE r

\* execute_block restoring the previous environment only when the
\* statements ran to their end
execute_block_at_end(st, statements, env) ==
    LET previous == st.environment
        r == exec_stmts([st EXCEPT !.environment = env], statements, 1)
    IN  R([r.st EXCEPT !.environment =
              IF r.res.k = "None" THEN previous ELSE @], r.res)

execute_block(st, statements, env) ==
    LET previous == st.environment
        r == exec_stmts([st EXCEPT !.environment = env], statements, 1)
    IN  R([r.st EXCEPT !.environment = previous], r.res)

\* `for (i, param) in ..enumerate() { environment.define(param, args[i]) }`
bind_params(values, params, args, i) ==
    IF i > Len(params) THEN values
    ELSE bind_params(Insert(values, params[i].lexeme, args[i]),
                     params, args, i + 1)

\* LoxFunction::call with the closure environment cloned instead of shared
LoxFunction_call_copy(st, fun, args) ==
    LET copy == Len(st.heap) + 1
        frame == Len(st.heap) + 2
        env == [Environment_new(Some(copy)) EXCEPT
                  !.values = bind_params(@, fun.declaration.parameters,
                                         args, 1)]
        active == [fn |-> fun.id, frame |-> frame]
        st1 == Emit([st EXCEPT
                       !.heap = Append(Append(@, st.heap[fun.closure[1]]),
                                       env),
                       !.calls = Append(@, active)],
                    [ev |-> "call", top |-> st.top, fn |-> fun.id,
                     frame |-> frame, closure |-> Some(copy),
                     caller |-> st.environment, args |-> args,
                     values |-> env.values])
        r == exec_stmts([st1 EXCEPT !.environment = frame],
                        fun.declaration.body, 1)
        res == IF r.res.k = "None" THEN OkSome(Nil) ELSE r.res
    IN  R([Emit(r.st, [ev |-> "callret", top |-> st.top, call |-> r.st.calls,
                       res |-> res, env |-> st.environment])
             EXCEPT !.calls = st.calls, !.environment = st.environment],
          res)

\* LoxFunction::call with the new frame enclosing the caller's environment
LoxFunction_call_from_caller(st, fun, args) ==
    LET frame == Len(st.heap) + 1
        env == [Environment_new(Some(st.environment)) EXCEPT
                  !.values = bind_params(@, fun.declaration.parameters,
                                         args, 1)]
        active == [fn |-> fun.id, frame |-> frame]
        st1 == Emit([st EXCEPT !.heap = Append(@, env),
                               !.calls = Append(@, active)],
                    [ev |-> "call", top |-> st.top, fn |-> fun.id,
                     frame |-> frame, closure |-> fun.closure,
                     caller |-> st.environment, args |-> args,
                     values |-> env.values])
        r == execute_block(st1, fun.declaration.body, frame)
        res == IF r.res.k = "None" THEN OkSome(Nil) ELSE r.res
    IN  R([Emit(r.st, [ev |-> "callret", top |-> st.top, call |-> r.st.calls,
                       res |-> res, env |-> r.st.environment])
             EXCEPT !.calls = st.calls],
          res)

\* impl Callable for LoxFunction: call
LoxFunction_call(st, fun, args) ==
    LET frame == Len(st.heap) + 1
        env == [Environment_new(fun.closure) EXCEPT
                  !.values = bind_params(@, fun.declaration.parameters,
                                         args, 1)]
        active == [fn |-> fun.id, frame |-> frame]
        st1 == Emit([st EXCEPT !.heap = Append(@, env),
                               !.calls = Append(@, active)],
                    [ev |-> "call", top |-> st.top, fn |-> fun.id,
                     frame |-> frame, closure |-> fun.closure,
                     caller |-> st.environment, args |-> args,
                     values |-> env.values])
        r == execute_block(st1, fun.declaration.body, frame)
        res == IF r.res.k = "None" THEN OkSome(Nil) ELSE r.res
    IN  R([Emit(r.st, [ev |-> "callret", top |-> st.top, call |-> r.st.calls,
                       res |-> res, env |-> r.st.environment])
             EXCEPT !.calls = st.calls],
          res)

\* impl Callable for NativeFunction: call (clock reads the wall clock)
NativeFunction_call(st, fun, args) == R(st, OkSome(Number(st.now)))

arity(callee) ==
    IF callee.t = "Function" THEN Len(callee.declaration.parameters)
    ELSE callee.arity

\* call refusing only a call with too few arguments
call_accepting_more(st, paren, callee, args) ==
    IF arity(callee) > Len(args)
    THEN runtime_error_result(st, paren,
             "Expected " \o ToString(arity(callee))
                 \o " arguments but got " \o ToString(Len(args)) \o ".")
    ELSE IF callee.t = "Function" THEN LoxFunction_call(st, callee, args)
         ELSE NativeFunction_call(st, callee, args)

\* callable.rs: call
call(st, paren, callee, args) ==
    IF arity(callee) # Len(args)
    THEN runtime_error_result(st, paren,
             "Expected " \o ToString(arity(callee))
                 \o " arguments but got " \o ToString(Len(args)) \o ".")
    ELSE IF callee.t = "Function" THEN LoxFunction_call(st, callee, args)
         ELSE NativeFunction_call(st, callee, args)

visit_expr(st, expr) ==
    CASE expr.k = "Assign" ->
           LET r == visit_expr(st, expr.value)
           IN  IF Unwinds(r.res) THEN r
               ELSE LET a == assign_var(r.st, expr.name.lexeme, r.res.v,
                                        expr.scope_id)
                    IN  IF a.err = None THEN R(a.st, r.res)
                        ELSE runtime_error_result(a.st, expr.name, a.err[1])
      [] expr.k = "Binary" ->
           LET l == visit_expr(st, expr.left)
           IN  IF Unwinds(l.res) THEN l
               ELSE LET r == visit_expr(l.st, expr.right)
                    IN  IF Unwinds(r.res) THEN r
                        ELSE eval_binary_expr(r.st, expr.operator,
                                              l.res.v, r.res.v)
      [] expr.k = "Call" ->
           LET c == visit_expr(st, expr.callee)
           IN  IF Unwinds(c.res) THEN c
               ELSE LET a == visit_args(c.st, expr.arguments, 1, <<>>)
                    IN  IF Unwinds(a.res) THEN R(a.st, a.res)
                        ELSE IF c.res.v.t \in {"Function", "NativeFunction"}
                             THEN call(a.st, expr.paren, c.res.v, a.values)
                             ELSE runtime_error_result(a.st, expr.paren,
                                      "Can only call functions and classes.")
      [] expr.k = "Grouping" -> visit_expr(st, expr.expression)
      [] expr.k = "Literal" -> R(st, OkSome(expr.value))
      [] expr.k = "Logical" ->
           LET l == visit_expr(st, expr.left)
           IN  IF Unwinds(l.res) THEN l
               ELSE IF expr.operator.token_type = "Or"
                    THEN IF is_truthy(l.res.v) THEN l
                         ELSE visit_expr(l.st, expr.right)
                    ELSE IF ~is_truthy(l.res.v) THEN l
                         ELSE visit_expr(l.st, expr.right)
      [] expr.k = "Unary" ->
           LET r == visit_expr(st, expr.right)
           IN  IF Unwinds(r.res) THEN r
               ELSE IF expr.operator.token_type = "Minus"
                    THEN IF r.res.v.t = "Number"
                         THEN R(r.st, OkSome(Number(0 - r.res.v.n)))
                         ELSE runtime_error_result(r.st, expr.operator,
                                  "Operand must be a number.")
                    ELSE R(r.st, OkSome(Boolean(~is_truthy(r.res.v))))
      [] expr.k = "Variable" ->
           LET l == look_up_var(st, expr.name.lexeme, expr.scope_id)
           IN  IF l.value # None THEN R(l.st, OkSome(l.value[1]))
               ELSE runtime_error_result(l.st, expr.name,
                        MsgUndefinedVariable(expr.name.lexeme))

\* the loop of Stmt::While, entered before the condition is evaluated
while_loop(st, stmt) ==
    LET c == visit_expr(st, stmt.condition)
    IN  IF Unwinds(c.res) THEN c
        ELSE IF ~is_truthy(c.res.v) THEN R(c.st, OkNone)
             ELSE LET b == visit_stmt(c.st, stmt.body)
                  IN  IF b.res.k # "None" THEN b
                      ELSE while_loop(b.st, stmt)

\* history only: the "stmt" event at index `at` of a Block gets what the
\* interpreter is at when the block's execute_block has returned r
block_left(r, at) ==
    R([r.st EXCEPT !.log[at].left =
          Some([env |-> r.st.environment, res |-> r.res.k])],
      r.res)

visit_stmt(st0, stmt) ==
    LET st == Emit(st0, [ev |-> "stmt", top |-> st0.top, k |-> stmt.k,
                         call |-> st0.calls, env |-> st0.environment,
                         left |-> None])
    IN
    CASE stmt.k = "Block" ->
           block_left(
               execute_block([st EXCEPT !.heap =
                                 Append(@, Environment_new(
                                               Some(st.environment)))],
                             stmt.statements, Len(st.heap) + 1),
               Len(st.log))
      [] stmt.k = "Expr" ->
           LET r == visit_expr(st, stmt.expression)
           IN  IF Unwinds(r.res) THEN r ELSE R(r.st, OkNone)
      [] stmt.k = "Fun" ->
           LET fun == LoxFunction(stmt, Some(st.environment), st.next_id)
               st1 == Emit([st EXCEPT !.next_id = @ + 1],
                           [ev |-> "fun", top |-> st.top, fn |-> fun.id,
                            closure |-> st.environment,
                            at |-> [n \in Names |->
                                      binding_frame(st.heap, st.environment,
                                                    n)]])
           IN  R(define_var(st1, stmt.name.lexeme, fun), OkNone)
      [] stmt.k = "If" ->
           LET c == visit_expr(st, stmt.condition)
           IN  IF Unwinds(c.res) THEN c
               ELSE IF is_truthy(c.res.v)
                    THEN visit_stmt(c.st, stmt.then_branch)
                    ELSE IF stmt.else_branch # None
                         THEN visit_stmt(c.st, stmt.else_branch[1])
                         ELSE R(c.st, OkNone)
      [] stmt.k = "Print" ->
           LET r == visit_expr(st, stmt.expression)
           IN  IF Unwinds(r.res) THEN r
               ELSE R(Emit([r.st EXCEPT !.out =
                               Append(@, [top |-> st.top,
                                          text |-> print(r.res.v)])],
                           [ev |-> "print", top |-> st.top,
                            text |-> print(r.res.v)]),
                      OkNone)
      [] stmt.k = "Return" ->
           LET r == IF stmt.value # None THEN visit_expr(st, stmt.value[1])
                    ELSE R(st, OkSome(Nil))
           IN  IF Unwinds(r.res) THEN r
               ELSE R(Emit(r.st, [ev |-> "return", top |-> st.top,
                                  call |-> st.calls, v |-> r.res.v]),
                      r.res)
      [] stmt.k = "Var" ->
           LET r == IF stmt.initializer # None
                    THEN visit_expr(st, stmt.initializer[1])
                    ELSE R(st, OkSome(Nil))
           IN  IF Unwinds(r.res) THEN r
               ELSE R(define_var(r.st, stmt.name.lexeme, r.res.v), OkNone)
      [] stmt.k = "While" -> while_loop(st, stmt)

-----------------------------------------------------------------------------
(* Source programs.  A program is the statement list the parser yields for *)
(* a source text made of up to MaxFrags of the fragments below, in any     *)
(* order.  A fragment is written with lines and ScopeIds counted from 1;   *)
(* Place moves them to where the fragment stands in the text, so that      *)
(* lines grow along the text and every ScopeId of a program is unique.     *)

V(name, id, line) == Variable(Ident(name, line), id)

Str(s) == Literal(String(s))

Num(n) == Literal(Number(n))

Op(tt, line) == Tok(tt, tt, line)

CallExpr(callee, arguments, line) ==
    Call(callee, Tok("RightParen", ")", line), arguments)

Ret(value, line) == ReturnStmt(Tok("Return", "return", line), value)

\* var a = "global";
FragGlobalA == <<VarStmt(Ident("a", 1), Some(Str("global")))>>

\* { fun show() { print a; } show(); var a = "local"; show(); }
FragShow ==
    <<BlockStmt(<<
        FunStmt(Ident("show", 2), <<>>, <<PrintStmt(V("a", 1, 2))>>),
        ExprStmt(CallExpr(V("show", 2, 3), <<>>, 3)),
        VarStmt(Ident("a", 4), Some(Str("local"))),
        ExprStmt(CallExpr(V("show", 3, 5), <<>>, 5))>>)>>

\* { fun show() { print clock; } show(); var clock = "local"; show(); }
FragShowClock ==
    <<BlockStmt(<<
        FunStmt(Ident("show", 2), <<>>, <<PrintStmt(V("clock", 1, 2))>>),
        ExprStmt(CallExpr(V("show", 2, 3), <<>>, 3)),
        VarStmt(Ident("clock", 4), Some(Str("local"))),
        ExprStmt(CallExpr(V("show", 3, 5), <<>>, 5))>>)>>

\* fun makeCounter() { var n = 0; fun count() { n = n + 1; return n; }
\*                     return count; }
\* var c = makeCounter(); print c(); print c(); print c();
FragCounter ==
    <<FunStmt(Ident("makeCounter", 1), <<>>, <<
        VarStmt(Ident("n", 2), Some(Num(0))),
        FunStmt(Ident("count", 3), <<>>, <<
            ExprStmt(Assign(Ident("n", 3),
                            Binary(V("n", 1, 3), Op("Plus", 3), Num(1)), 2)),
            Ret(Some(V("n", 3, 3)), 3)>>),
        Ret(Some(V("count", 4, 4)), 4)>>),
      VarStmt(Ident("c", 5),
              Some(CallExpr(V("makeCounter", 5, 5), <<>>, 5))),
      PrintStmt(CallExpr(V("c", 6, 6), <<>>, 6)),
      PrintStmt(CallExpr(V("c", 7, 7), <<>>, 7)),
      PrintStmt(CallExpr(V("c", 8, 8), <<>>, 8))>>

\* { var x = 0; fun get() { return x; } x = 5; print get(); }
FragCapture ==
    <<BlockStmt(<<
        VarStmt(Ident("x", 2), Some(Num(0))),
        FunStmt(Ident("get", 3), <<>>, <<Ret(Some(V("x", 1, 3)), 3)>>),
        ExprStmt(Assign(Ident("x", 4), Num(5), 2)),
        PrintStmt(CallExpr(V("get", 3, 5), <<>>, 5))>>)>>

\* var b = 1 + "x";
FragBadInit ==
    <<VarStmt(Ident("b", 1),
              Some(Binary(Num(1), Op("Plus", 1), Str("x"))))>>

\* print b;
FragPrintB == <<PrintStmt(V("b", 1, 1))>>

\* print a;
FragPrintA == <<PrintStmt(V("a", 1, 1))>>

\* fun f(n) { while (n < 3) { if (n == 1) { return "one"; } n = n + 1; }
\*            print "fell"; }
\* print f(0); print f(2);
FragReturn ==
    <<FunStmt(Ident("f", 1), <<Ident("n", 1)>>, <<
        WhileStmt(Binary(V("n", 1, 2), Op("Less", 2), Num(3)),
          BlockStmt(<<
            IfStmt(Binary(V("n", 2, 3), Op("EqualEqual", 3), Num(1)),
                   BlockStmt(<<Ret(Some(Str("one")), 3)>>), None),
            ExprStmt(Assign(Ident("n", 4),
                            Binary(V("n", 3, 4), Op("Plus", 4), Num(1)),
                            4))>>)),
        PrintStmt(Str("fell"))>>),
      PrintStmt(CallExpr(V("f", 5, 6), <<Num(0)>>, 6)),
      PrintStmt(CallExpr(V("f", 6, 7), <<Num(2)>>, 7))>>

\* return 1;
FragTopReturn == <<Ret(Some(Num(1)), 1)>>

\* fun g() { var y = y; var x = x; }
FragFunBad ==
    <<FunStmt(Ident("g", 1), <<>>, <<
        VarStmt(Ident("y", 2), Some(V("y", 1, 2))),
        VarStmt(Ident("x", 3), Some(V("x", 2, 3)))>>)>>

\* { var a = a; var a = 2; }
FragBlockBad ==
    <<BlockStmt(<<VarStmt(Ident("a", 2), Some(V("a", 1, 2))),
                  VarStmt(Ident("a", 3), Some(Num(2)))>>)>>

\* { print 1 + "a"; print "after"; }
FragRuntime ==
    <<BlockStmt(<<
        PrintStmt(Binary(Num(1), Op("Plus", 2), Str("a"))),
        PrintStmt(Str("after"))>>)>>

\* fun outer() { fun inner() { return 1; } return inner(); } print outer();
FragOuter ==
    <<FunStmt(Ident("outer", 1), <<>>, <<
        FunStmt(Ident("inner", 2), <<>>, <<Ret(Some(Num(1)), 2)>>),
        Ret(Some(CallExpr(V("inner", 1, 3), <<>>, 3)), 3)>>),
      PrintStmt(CallExpr(V("outer", 2, 4), <<>>, 4))>>

\* { var x = 1; var x = 2; }
FragDup ==
    <<BlockStmt(<<VarStmt(Ident("x", 2), Some(Num(1))),
                  VarStmt(Ident("x", 3), Some(Num(2)))>>)>>

Fragments ==
    <<FragGlobalA, FragShow, FragShowClock, FragCounter, FragCapture,
      FragBadInit, FragPrintB, FragPrintA, FragReturn, FragTopReturn,
      FragFunBad, FragBlockBad, FragRuntime, FragOuter, FragDup>>

\* lines and ScopeIds a fragment may use
FragLines == 10

FragIds == 10

PlaceTok(t, p) == [t EXCEPT !.line = @ + FragLines * (p - 1)]

RECURSIVE PlaceExpr(_, _)

PlaceExpr(e, p) ==
    CASE e.k = "Assign" ->
           Assign(PlaceTok(e.name, p), PlaceExpr(e.value, p),
                  e.scope_id + FragIds * (p - 1))
      [] e.k = "Binary" ->
           Binary(PlaceExpr(e.left, p), PlaceTok(e.operator, p),
                  PlaceExpr(e.right, p))
      [] e.k = "Call" ->
           Call(PlaceExpr(e.callee, p), PlaceTok(e.paren, p),
                [i \in 1..Len(e.arguments) |-> PlaceExpr(e.arguments[i], p)])
      [] e.k = "Grouping" -> Grouping(PlaceExpr(e.expression, p))
      [] e.k = "Literal" -> e
      [] e.k = "Logical" ->
           Logical(PlaceExpr(e.left, p), PlaceTok(e.operator, p),
                   PlaceExpr(e.right, p))
      [] e.k = "Unary" ->
           Unary(PlaceTok(e.operator, p), PlaceExpr(e.right, p))
      [] e.k = "Variable" ->
           Variable(PlaceTok(e.name, p), e.scope_id + FragIds * (p - 1))

RECURSIVE PlaceStmt(_, _)

PlaceStmts(ss, p) == [i \in 1..Len(ss) |-> PlaceStmt(ss[i], p)]

PlaceStmt(s, p) ==
    CASE s.k = "Block" -> BlockStmt(PlaceStmts(s.statements, p))
      [] s.k = "Expr" -> ExprStmt(PlaceExpr(s.expression, p))
      [] s.k = "Fun" ->
           FunStmt(PlaceTok(s.name, p),
                   [i \in 1..Len(s.parameters) |->
                      PlaceTok(s.parameters[i], p)],
                   PlaceStmts(s.body, p))
      [] s.k = "If" ->
           IfStmt(PlaceExpr(s.condition, p), PlaceStmt(s.then_branch, p),
                  IF s.else_branch = None THEN None
                  ELSE Some(PlaceStmt(s.else_branch[1], p)))
      [] s.k = "Print" -> PrintStmt(PlaceExpr(s.expression, p))
      [] s.k = "Return" ->
           ReturnStmt(PlaceTok(s.keyword, p),
                      IF s.value = None THEN None
                      ELSE Some(PlaceExpr(s.value[1], p)))
      [] s.k = "While" ->
           WhileStmt(PlaceExpr(s.condition, p), PlaceStmt(s.body, p))
      [] s.k = "Var" ->
           VarStmt(PlaceTok(s.name, p),
                   IF s.initializer = None THEN None
                   ELSE Some(PlaceExpr(s.initializer[1], p)))

\* the fragments chosen for a text, in text order, none of them twice
Orders ==
    UNION {{o \in [1..m -> 1..Len(Fragments)] :
              \A i, j \in 1..m : i # j => o[i] # o[j]} : m \in 0..MaxFrags}

RECURSIVE ProgramOf(_, _)

ProgramOf(o, p) ==
    IF p > Len(o) THEN <<>>
    ELSE PlaceStmts(Fragments[o[p]], p) \o ProgramOf(o, p + 1)

-----------------------------------------------------------------------------
(* The pipeline: parse, then Interpreter::run (resolve, then evaluate)     *)

ParseError(line, lexeme, msg) ==
    [line |-> line, lexeme |-> lexeme, msg |-> msg]

\* the errors of a source the parser rejects
SomeParseErrors == <<ParseError(1, ";", "Expect expression.")>>

\* the end of parse: the statements are handed on only without errors
parse_result(statements, errs) ==
    IF Len(errs) > 0 THEN [k |-> "Err", errors |-> errs]
    ELSE [k |-> "Ok", statements |-> statements]

\* Interpreter::new
Globals == 1

Interpreter_new_heap ==
    define_native_functions(<<Environment_new(None)>>, Globals)

\* a fresh interpreter and what the parser made of the source text
Started ==
    /\ parseErrors \in {<<>>, SomeParseErrors}
    /\ now \in 1..MaxClock
    /\ pc = "start"
    /\ scopes = <<>>
    /\ current_fun = None
    /\ locals = EmptyMap
    /\ heap = Interpreter_new_heap
    /\ environment = Globals
    /\ next_id = 1
    /\ idx = 1
    /\ errors = <<>>
    /\ result = None
    /\ out = <<>>
    /\ log = <<>>
    /\ env_rs = <<>>
    /\ scanner = <<>>
    /\ parser = <<>>
    /\ process = <<>>

Init ==
    /\ \E o \in Orders : source = ProgramOf(o, 1)
    /\ Started

\* the driver, on a source the parser rejects: the errors are returned and
\* Interpreter::run is not called
ParseFailed ==
    /\ pc = "start"
    /\ parse_result(source, parseErrors).k = "Err"
    /\ result' = Some(parse_result(source, parseErrors))
    /\ pc' = "done"
    /\ UNCHANGED <<source, parseErrors, scopes, current_fun, locals, heap,
                   environment, next_id, idx, errors, out, now, log>>
    /\ UNCHANGED units

\* Interpreter::run without the `?` after resolve
RunResolve_no_abort ==
    /\ pc = "start"
    /\ parse_result(source, parseErrors).k = "Ok"
    /\ LET res == resolve(ResolverState(scopes, current_fun, locals),
                          parse_result(source, parseErrors).statements)
       IN  /\ scopes' = res.r.scopes
           /\ current_fun' = res.r.current_fun
           /\ locals' = res.r.locals
    /\ pc' = "loop"
    /\ idx' = 1
    /\ errors' = <<>>
    /\ UNCHANGED <<source, parseErrors, heap, environment, next_id, out,
                   now, log, result>>
    /\ UNCHANGED units

\* Interpreter::run, up to the `?` after resolve
RunResolve ==
    /\ pc = "start"
    /\ parse_result(source, parseErrors).k = "Ok"
    /\ LET res == resolve(ResolverState(scopes, current_fun, locals),
                          parse_result(source, parseErrors).statements)
       IN  /\ scopes' = res.r.scopes
           /\ current_fun' = res.r.current_fun
           /\ locals' = res.r.locals
           /\ IF Len(res.errors) > 0
              THEN /\ result' = Some([k |-> "Err", errors |-> res.errors])
                   /\ pc' = "done"
              ELSE /\ result' = result
                   /\ pc' = "loop"
    /\ idx' = 1
    /\ errors' = <<>>
    /\ UNCHANGED <<source, parseErrors, heap, environment, next_id, out,
                   now, log>>
    /\ UNCHANGED units

\* the interpreter as visit_stmt sees it at top-level statement idx
run_state ==
    [heap |-> heap, environment |-> environment, next_id |-> next_id,
     out |-> out, locals |-> locals, now |-> now, top |-> idx,
     calls |-> <<>>, log |-> log]

\* the interpreter after a top-level statement that ended with r
run_store(r) ==
    /\ heap' = r.st.heap
    /\ environment' = r.st.environment
    /\ next_id' = r.st.next_id
    /\ out' = r.st.out
    /\ log' = r.st.log
    /\ errors' = IF r.res.k = "Err" THEN Append(errors, r.res.e) ELSE errors
    /\ pc' = IF r.res.k = "Panic" THEN "aborted" ELSE pc

\* `return` out of the loop at an Err
leave_at_error(r) ==
    idx' = IF r.res.k = "Err" THEN Len(source) + 1 ELSE idx + 1

\* the loop of Interpreter::run leaving at the first Err
RunStmt_fail_fast ==
    /\ pc = "loop"
    /\ idx <= Len(source)
    /\ LET r == visit_stmt(run_state, source[idx])
       IN  run_store(r) /\ leave_at_error(r)
    /\ UNCHANGED <<source, parseErrors, scopes, current_fun, locals,
                   result, now>>
    /\ UNCHANGED units

\* one iteration of `for stmt in stmts.iter()` in Interpreter::run
RunStmt ==
    /\ pc = "loop"
    /\ idx <= Len(source)
    /\ run_store(visit_stmt(run_state, source[idx]))
    /\ idx' = idx + 1
    /\ UNCHANGED <<source, parseErrors, scopes, current_fun, locals,
                   result, now>>
    /\ UNCHANGED units

\* the end of Interpreter::run
RunReturn ==
    /\ pc = "loop"
    /\ idx > Len(source)
    /\ result' = Some(IF Len(errors) = 0 THEN [k |-> "Ok"]
                      ELSE [k |-> "Err", errors |-> errors])
    /\ pc' = "done"
    /\ UNCHANGED <<source, parseErrors, scopes, current_fun, locals, heap,
                   environment, next_id, idx, errors, out, now, log>>
    /\ UNCHANGED units

Next == ParseFailed \/ RunResolve \/ RunStmt \/ RunReturn

Spec == Init /\ [][Next]_vars

-----------------------------------------------------------------------------
(* The process (src/main.rs): main, run_file and run_prompt around the     *)
(* interpreter.  process.args is args.len() (the program name counted),    *)
(* process.input the texts to be read, each as the statement list the      *)
(* parser makes of it (the file in run_file, the lines typed in            *)
(* run_prompt), and process.next the one to be read next.  What is written *)
(* to stderr is left out.                                                  *)

\* the most command-line arguments, the program name counted
MaxArgs == 3

\* what File::open and read_to_string make of the file name
Files == {"missing", "unreadable", "read"}

Process(args, file, input) ==
    [args |-> args, file |-> file, input |-> input, next |-> 1,
     failed |-> FALSE, status |-> None]

\* the program ended with this exit status
exit(status) ==
    /\ process' = [process EXCEPT !.status = Some(status)]
    /\ pc' = "exited"

\* main with more than one argument: the usage is printed and main returns
MainUsage ==
    /\ pc = "main"
    /\ process.args > 2
    /\ out' = Append(out, [top |-> 0, text |-> "Usage: rlox [script]"])
    /\ exit(0)
    /\ UNCHANGED <<source, parseErrors, scopes, current_fun, locals, heap,
                   environment, next_id, idx, errors, result, now, log,
                   env_rs, scanner, parser>>

\* run_file: the file cannot be opened or cannot be read
RunFileFails ==
    /\ pc = "main"
    /\ process.args = 2
    /\ process.file # "read"
    /\ exit(65)
    /\ UNCHANGED <<source, parseErrors, scopes, current_fun, locals, heap,
                   environment, next_id, idx, errors, result, out, now, log,
                   env_rs, scanner, parser>>

\* run_file: the file is read and handed to run
RunFile ==
    /\ pc = "main"
    /\ process.args = 2
    /\ process.file = "read"
    /\ source' = process.input[process.next]
    /\ process' = [process EXCEPT !.next = @ + 1]
    /\ pc' = "start"
    /\ UNCHANGED <<parseErrors, scopes, current_fun, locals, heap,
                   environment, next_id, idx, errors, result, out, now, log,
                   env_rs, scanner, parser>>

\* run_file behind run: Ok(_) => (), and main returns; Err(_) => exit(70)
RunFileReturn ==
    /\ pc = "done"
    /\ process # <<>>
    /\ process.args = 2
    /\ exit(IF result[1].k = "Ok" THEN 0 ELSE 70)
    /\ UNCHANGED <<source, parseErrors, scopes, current_fun, locals, heap,
                   environment, next_id, idx, errors, result, out, now, log,
                   env_rs, scanner, parser>>

\* run_prompt: the next line is read and handed to run on the same
\* interpreter; what the run before returned is dropped
RunPrompt ==
    /\ pc \in {"main", "done"}
    /\ process # <<>>
    /\ process.args < 2
    /\ process.next <= Len(process.input)
    /\ source' = process.input[process.next]
    /\ process' = [process EXCEPT
                      !.next = @ + 1,
                      !.failed = @ \/ (result # None /\ result[1].k = "Err")]
    /\ result' = None
    /\ pc' = "start"
    /\ UNCHANGED <<parseErrors, scopes, current_fun, locals, heap,
                   environment, next_id, idx, errors, out, now, log,
                   env_rs, scanner, parser>>

MainNext ==
    \/ MainUsage
    \/ RunFileFails
    \/ RunFile
    \/ RunFileReturn
    \/ RunPrompt
    \/ ParseFailed
    \/ RunResolve
    \/ RunStmt
    \/ RunReturn

\* the lines of a text typed at the prompt, one fragment a line
LinesOf(o) == [p \in 1..Len(o) |-> PlaceStmts(Fragments[o[p]], p)]

MainInit ==
    /\ \/ \E n \in 3..MaxArgs : process = Process(n, "read", <<>>)
       \/ \E f \in Files \ {"read"} : process = Process(2, f, <<>>)
       \/ \E o \in Orders : process = Process(2, "read", <<ProgramOf(o, 1)>>)
       \/ \E o \in Orders : process = Process(1, "read", LinesOf(o))
    /\ parseErrors \in {<<>>, SomeParseErrors}
    /\ now \in 1..MaxClock
    /\ pc = "main"
    /\ source = <<>>
    /\ scopes = <<>>
    /\ current_fun = None
    /\ locals = EmptyMap
    /\ heap = Interpreter_new_heap
    /\ environment = Globals
    /\ next_id = 1
    /\ idx = 1
    /\ errors = <<>>
    /\ result = None
    /\ out = <<>>
    /\ log = <<>>
    /\ env_rs = <<>>
    /\ scanner = <<>>
    /\ parser = <<>>

MainSpec == MainInit /\ [][MainNext]_vars

-----------------------------------------------------------------------------
(* The pipeline on programs that evaluate one operator or one call:        *)
(*   var t = true; var f = false; var n = nil; var z = 0; var two = 2;     *)
(*   var e = ""; var a = "a";  var r = <left> <op> <right>;                *)
(* with <left>, <right> among these variables and clock, and               *)
(*   fun g(p1, .., pn) { print "body"; }  var r = g(1, .., k);             *)
(*   var r = clock(1, .., k);                                              *)

MaxArity == 2

Prelude ==
    <<VarStmt(Ident("t", 1), Some(Literal(Boolean(TRUE)))),
      VarStmt(Ident("f", 2), Some(Literal(Boolean(FALSE)))),
      VarStmt(Ident("n", 3), Some(Literal(Nil))),
      VarStmt(Ident("z", 4), Some(Num(0))),
      VarStmt(Ident("two", 5), Some(Num(2))),
      VarStmt(Ident("e", 6), Some(Str(""))),
      VarStmt(Ident("a", 7), Some(Str("a")))>>

OperandNames == {"t", "f", "n", "z", "two", "e", "a", "clock"}

BinaryOps == {"Plus", "Minus", "Star", "Slash", "Greater", "GreaterEqual",
              "Less", "LessEqual", "EqualEqual", "BangEqual"}

LogicalOps == {"And", "Or"}

\* the line of the statement after the prelude
OperatorLine == Len(Prelude) + 1

ExprProgram(op, left, right) ==
    Prelude \o
    <<VarStmt(Ident("r", OperatorLine),
              Some(IF op \in LogicalOps
                   THEN Logical(V(left, 1, OperatorLine),
                                Op(op, OperatorLine),
                                V(right, 2, OperatorLine))
                   ELSE Binary(V(left, 1, OperatorLine),
                               Op(op, OperatorLine),
                               V(right, 2, OperatorLine))))>>

Params(n) == [i \in 1..n |-> Ident("p" \o ToString(i), 1)]

Args(k) == [i \in 1..k |-> Num(i)]

CallOf(name, k) ==
    VarStmt(Ident("r", 2), Some(CallExpr(V(name, 1, 2), Args(k), 2)))

CallProgram(n, k) ==
    <<FunStmt(Ident("g", 1), Params(n), <<PrintStmt(Str("body"))>>),
      CallOf("g", k)>>

NativeCallProgram(k) == <<PrintStmt(Str("start")), CallOf("clock", k)>>

ExprInit ==
    /\ \/ \E op \in BinaryOps \cup LogicalOps :
            \E left \in OperandNames, right \in OperandNames :
                source = ExprProgram(op, left, right)
       \/ \E n \in 0..MaxArity, k \in 0..MaxArity :
            source = CallProgram(n, k)
       \/ \E k \in 0..MaxArity : source = NativeCallProgram(k)
    /\ Started

ExprSpec == ExprInit /\ [][Next]_vars

-----------------------------------------------------------------------------
(* Calls whose callee and arguments are variables, some of them undefined: *)
(*   var a = 1; var b = 2;                                                 *)
(*   fun g(p1, .., pn) { print "body"; }                                   *)
(*   var r = <callee>(<arg>, .., <arg>);                                   *)
(* a and b are numbers, g the function, clock the native function, and c   *)
(* is declared nowhere.                                                    *)

Callees == {"g", "clock", "a", "c"}

ArgNames == {"a", "b", "c"}

OrderDeclarations(n) ==
    <<VarStmt(Ident("a", 1), Some(Num(1))),
      VarStmt(Ident("b", 2), Some(Num(2))),
      FunStmt(Ident("g", 3), Params(n), <<PrintStmt(Str("body"))>>)>>

\* the line of the call
OrderLine == Len(OrderDeclarations(0)) + 1

OrderProgram(n, callee, args) ==
    OrderDeclarations(n) \o
    <<VarStmt(Ident("r", OrderLine),
              Some(CallExpr(V(callee, 1, OrderLine),
                            [i \in 1..Len(args) |->
                               V(args[i], i + 1, OrderLine)],
                            OrderLine)))>>

OrderInit ==
    /\ \E n \in 0..MaxArity, callee \in Callees :
         \E k \in 0..MaxArity : \E args \in [1..k -> ArgNames] :
             source = OrderProgram(n, callee, args)
    /\ Started

OrderSpec == OrderInit /\ [][Next]_vars

-----------------------------------------------------------------------------
(* Programs about the frame of a call                                      *)

\* fun f() { print x; }
\* { var x = 1; f(); }
CallerLocalProgram ==
    <<FunStmt(Ident("f", 1), <<>>, <<PrintStmt(V("x", 1, 1))>>),
      BlockStmt(<<VarStmt(Ident("x", 2), Some(Num(1))),
                  ExprStmt(CallExpr(V("f", 2, 2), <<>>, 2))>>)>>

\* the deepest argument of the recursion
MaxDepth == 2

\* fun f(n) { if (n < MaxDepth) { f(n + 1); } print n; }
\* f(start);
RecursiveProgram(start) ==
    <<FunStmt(Ident("f", 1), <<Ident("n", 1)>>, <<
        IfStmt(Binary(V("n", 1, 1), Op("Less", 1), Num(MaxDepth)),
               BlockStmt(<<ExprStmt(CallExpr(
                   V("f", 2, 1),
                   <<Binary(V("n", 3, 1), Op("Plus", 1), Num(1))>>, 1))>>),
               None),
        PrintStmt(V("n", 4, 1))>>),
      ExprStmt(CallExpr(V("f", 5, 2), <<Num(start)>>, 2))>>

\* fun g(p1, .., pn) { print p1; .. print pn; }
\* g(1, .., n);
BindProgram(n) ==
    <<FunStmt(Ident("g", 1), Params(n),
              [i \in 1..n |-> PrintStmt(V("p" \o ToString(i), i, 1))]),
      ExprStmt(CallExpr(V("g", n + 1, 2), Args(n), 2))>>

\* fun f(n) { fun get() { return n; } return get; }
\* var a = f(1); var b = f(2); print a(); print b();
TwoFramesProgram ==
    <<FunStmt(Ident("f", 1), <<Ident("n", 1)>>, <<
        FunStmt(Ident("get", 1), <<>>, <<Ret(Some(V("n", 1, 1)), 1)>>),
        Ret(Some(V("get", 2, 1)), 1)>>),
      VarStmt(Ident("a", 2), Some(CallExpr(V("f", 3, 2), <<Num(1)>>, 2))),
      VarStmt(Ident("b", 3), Some(CallExpr(V("f", 4, 3), <<Num(2)>>, 3))),
      PrintStmt(CallExpr(V("a", 5, 4), <<>>, 4)),
      PrintStmt(CallExpr(V("b", 6, 5), <<>>, 5))>>

CallInit ==
    /\ \/ source = CallerLocalProgram
       \/ \E start \in 0..MaxDepth : source = RecursiveProgram(start)
       \/ \E n \in 0..MaxArity : source = BindProgram(n)
       \/ source = TwoFramesProgram
       \/ \E o \in Orders : source = ProgramOf(o, 1)
    /\ Started

CallSpec == CallInit /\ [][Next]_vars

-----------------------------------------------------------------------------
(* The two Environment types on their own, driven as their unit tests      *)
(* drive them: v2::Environment of interpreter/src/environment.rs (a frame  *)
(* owning its enclosing frame; heap is the chain, environment its inner    *)
(* end) and Environment of src/env.rs (a vector of scopes).  pc tells      *)
(* which of the two the behaviour exercises; result holds the last call    *)
(* and what it returned; log holds, per frame and name defined in it, what *)
(* get returned for the name from the enclosing frame just before the      *)
(* first define (history only).                                            *)

MaxScopes == 3

EnvNames == {"foo", "bar"}

EnvValues == {Number(4), Number(5)}

\* src/env.rs: Environment::new
Env_new == [scopes |-> <<EmptyMap>>, current_scope |-> 0, panicked |-> FALSE]

\* a usize index that is in bounds for the scopes vector
Env_in_bounds(e, i) == i >= 0 /\ i < Len(e.scopes)

Env_panic(e) == [e EXCEPT !.panicked = TRUE]

\* src/env.rs: push_scope
Env_push_scope(e) ==
    [e EXCEPT !.current_scope = @ + 1, !.scopes = Append(@, EmptyMap)]

\* src/env.rs: pop_scope.  current_scope is a usize: `-= 1` at 0 panics in
\* a build with overflow checks and wraps to usize::MAX (written -1 here,
\* the same number modulo 2^64) in a build without.
Env_pop_scope(e, checked) ==
    IF Len(e.scopes) = 0 THEN e
    ELSE IF e.current_scope = 0 /\ checked
         THEN Env_panic([e EXCEPT !.scopes = Front(@)])
         ELSE [e EXCEPT !.scopes = Front(@), !.current_scope = @ - 1]

\* the `while scope != 0` walk of assign and get: the nearest scope at or
\* below `scope` that holds name
RECURSIVE Env_find(_, _, _)

Env_find(e, name, scope) ==
    IF name \in DOMAIN e.scopes[scope + 1] THEN Some(scope)
    ELSE IF scope = 0 THEN None
         ELSE Env_find(e, name, scope - 1)

\* src/env.rs: assign
Env_assign(e, name, val) ==
    IF ~Env_in_bounds(e, e.current_scope)
    THEN [e |-> Env_panic(e), err |-> None]
    ELSE LET found == Env_find(e, name, e.current_scope)
         IN  IF found = None
             THEN [e |-> e, err |-> Some(MsgUndefinedVariableDot(name))]
             ELSE [e |-> [e EXCEPT !.scopes[found[1] + 1] =
                                       Insert(@, name, val)],
                   err |-> None]

\* src/env.rs: define
Env_define(e, name, val) ==
    IF ~Env_in_bounds(e, e.current_scope) THEN Env_panic(e)
    ELSE [e EXCEPT !.scopes[e.current_scope + 1] = Insert(@, name, val)]

\* src/env.rs: get (None also when the index is out of bounds: the panic
\* is the caller's, see EnvGetPanics)
Env_get(e, name) ==
    IF ~Env_in_bounds(e, e.current_scope) THEN None
    ELSE LET found == Env_find(e, name, e.current_scope)
         IN  IF found = None THEN None
             ELSE Some(e.scopes[found[1] + 1][name])

\* the last call and its outcome
Called(op, name, value, err, left) ==
    [op |-> op, name |-> name, value |-> value, err |-> err, left |-> left]

\* history: remember what the enclosing frame answered for name when name
\* is first defined in frame f
Remember(f, name, outer) ==
    IF name \in DOMAIN log[f] THEN log
    ELSE [log EXCEPT ![f] = Insert(@, name, outer)]

EnvInit ==
    /\ pc \in {"v2", "scopes"}
    /\ heap = <<Environment_new(None)>>
    /\ environment = 1
    /\ env_rs = Env_new
    /\ result = None
    /\ log = <<EmptyMap>>
    /\ source = <<>>
    /\ parseErrors = <<>>
    /\ scopes = <<>>
    /\ current_fun = None
    /\ locals = EmptyMap
    /\ next_id = 1
    /\ idx = 1
    /\ errors = <<>>
    /\ out = <<>>
    /\ now = 1
    /\ scanner = <<>>
    /\ parser = <<>>
    /\ process = <<>>

\* what no call on an Environment touches
EnvFrame ==
    UNCHANGED <<source, parseErrors, pc, scopes, current_fun, locals,
                next_id, idx, errors, out, now, scanner, parser, process>>

\* Environment::new(Some(Box::new(parent)))
V2Enter ==
    /\ pc = "v2"
    /\ Len(heap) < MaxScopes
    /\ heap' = Append(heap, Environment_new(Some(environment)))
    /\ environment' = Len(heap) + 1
    /\ log' = Append(log, EmptyMap)
    /\ result' = Some(Called("new", "", Nil, None, None))
    /\ UNCHANGED env_rs
    /\ EnvFrame

\* `env.enclosing.take().unwrap()`: back to the enclosing frame
V2Leave ==
    /\ pc = "v2"
    /\ heap[environment].enclosing # None
    /\ environment' = heap[environment].enclosing[1]
    /\ heap' = Front(heap)
    /\ log' = Front(log)
    /\ result' = Some(Called("leave", "", Nil, None,
                          Some([seen |-> Last(log),
                                values |-> heap[environment].values])))
    /\ UNCHANGED env_rs
    /\ EnvFrame

V2Define ==
    /\ pc = "v2"
    /\ \E name \in EnvNames, value \in EnvValues :
         /\ heap' = env_define(heap, environment, name, value)
         /\ log' = IF heap[environment].enclosing = None THEN log
                   ELSE Remember(environment, name,
                            env_get(heap, heap[environment].enclosing[1],
                                    name))
         /\ result' = Some(Called("define", name, value, None, None))
    /\ UNCHANGED <<environment, env_rs>>
    /\ EnvFrame

V2Assign ==
    /\ pc = "v2"
    /\ \E name \in EnvNames, value \in EnvValues :
         /\ heap' = env_assign(heap, environment, name, value).h
         /\ result' = Some(Called("assign", name, value,
                               env_assign(heap, environment, name,
                                          value).err, None))
    /\ UNCHANGED <<environment, env_rs, log>>
    /\ EnvFrame

\* a call that names a distance, and the Option<Value> it returned
CalledAt(op, name, value, err, distance, got) ==
    [op |-> op, name |-> name, value |-> value, err |-> err, left |-> None,
     distance |-> distance, got |-> got]

\* the distances a call may name: those of the chain and one beyond it
Distances == 0..MaxScopes

\* what a call that names a distance leaves alone (pc "at": the call was
\* made)
AtFrame ==
    /\ pc' = "at"
    /\ UNCHANGED <<source, parseErrors, scopes, current_fun, locals, next_id,
                   idx, errors, out, now, scanner, parser, process>>

V2AssignAt ==
    /\ pc = "v2"
    /\ \E name \in EnvNames, value \in EnvValues, distance \in Distances :
         /\ heap' = env_assign_at(heap, environment, name, value,
                                  distance).h
         /\ result' = Some(CalledAt("assign_at", name, value,
                                    env_assign_at(heap, environment, name,
                                                  value, distance).err,
                                    distance, None))
    /\ UNCHANGED <<environment, env_rs, log>>
    /\ AtFrame

V2GetAt ==
    /\ pc = "v2"
    /\ \E name \in EnvNames, distance \in Distances :
         result' = Some(CalledAt("get_at", name, Nil, None, distance,
                                 env_get_at(heap, environment, name,
                                            distance)))
    /\ UNCHANGED <<heap, environment, env_rs, log>>
    /\ AtFrame

EnvPushScope ==
    /\ pc = "scopes"
    /\ ~env_rs.panicked
    /\ Len(env_rs.scopes) < MaxScopes
    /\ env_rs' = Env_push_scope(env_rs)
    /\ log' = Append(log, EmptyMap)
    /\ result' = Some(Called("new", "", Nil, None, None))
    /\ UNCHANGED <<heap, environment>>
    /\ EnvFrame

EnvPopScope ==
    /\ pc = "scopes"
    /\ ~env_rs.panicked
    /\ \E checked \in BOOLEAN : env_rs' = Env_pop_scope(env_rs, checked)
    /\ log' = IF Len(log) > 0 THEN Front(log) ELSE log
    /\ result' = Some(Called("leave", "", Nil, None,
                          IF Len(log) > 0
                          THEN Some([seen |-> Last(log),
                                     values |-> Last(env_rs.scopes)])
                          ELSE None))
    /\ UNCHANGED <<heap, environment>>
    /\ EnvFrame

EnvDefine ==
    /\ pc = "scopes"
    /\ ~env_rs.panicked
    /\ \E name \in EnvNames, value \in EnvValues :
         /\ env_rs' = Env_define(env_rs, name, value)
         /\ log' = IF env_rs.current_scope < 1
                        \/ ~Env_in_bounds(env_rs, env_rs.current_scope)
                   THEN log
                   ELSE Remember(env_rs.current_scope + 1, name,
                            Env_get([env_rs EXCEPT !.current_scope = @ - 1],
                                    name))
         /\ result' = Some(Called("define", name, value, None, None))
    /\ UNCHANGED <<heap, environment>>
    /\ EnvFrame

EnvAssign ==
    /\ pc = "scopes"
    /\ ~env_rs.panicked
    /\ \E name \in EnvNames, value \in EnvValues :
         /\ env_rs' = Env_assign(env_rs, name, value).e
         /\ result' = Some(Called("assign", name, value,
                               Env_assign(env_rs, name, value).err, None))
    /\ UNCHANGED <<heap, environment, log>>
    /\ EnvFrame

EnvNext ==
    \/ V2Enter \/ V2Leave \/ V2Define \/ V2Assign
    \/ EnvPushScope \/ EnvPopScope \/ EnvDefine \/ EnvAssign

EnvSpec == EnvInit /\ [][EnvNext]_vars

\* the maps a frame can hold
Scopes == UNION {[S -> EnvValues] : S \in SUBSET EnvNames}

\* a chain of n frames, values[i] in the frame i - 1 steps inside the
\* outermost one
ChainOf(n, values) ==
    [i \in 1..n |-> [enclosing |-> IF i = 1 THEN None ELSE Some(i - 1),
                     values |-> values[i]]]

\* get_at and assign_at called on the innermost frame of any chain of up
\* to MaxScopes frames
AtInit ==
    /\ pc = "v2"
    /\ \E n \in 1..MaxScopes : \E values \in [1..n -> Scopes] :
         /\ heap = ChainOf(n, values)
         /\ environment = n
         /\ log = [i \in 1..n |-> EmptyMap]
    /\ env_rs = Env_new
    /\ result = None
    /\ source = <<>>
    /\ parseErrors = <<>>
    /\ scopes = <<>>
    /\ current_fun = None
    /\ locals = EmptyMap
    /\ next_id = 1
    /\ idx = 1
    /\ errors = <<>>
    /\ out = <<>>
    /\ now = 1
    /\ scanner = <<>>
    /\ parser = <<>>
    /\ process = <<>>

AtNext == V2AssignAt \/ V2GetAt

AtSpec == AtInit /\ [][AtNext]_vars

-----------------------------------------------------------------------------
(* The parser crate (parser/src/lib.rs): recursive descent over the token  *)
(* vector.  Position i of the model is index i - 1 of the Vec<Token>.      *)
(* A result is Ok((node, pos)), Err((msg, pos)), or the panic of an index  *)
(* beyond the vector.  The ids the ast crate gives to Variable and Assign  *)
(* nodes are modelled by the position of the token that made the node.     *)

\* Token::new
Token_new(token_type, lexeme, literal, line) ==
    [token_type |-> token_type, lexeme |-> lexeme, line |-> line,
     literal |-> literal]

\* Stmt::class
ClassStmt(name, methods) == [k |-> "Class", name |-> name, methods |-> methods]

\* the cap on arguments and on parameters
MaxArguments == 8

\* tokens[pos] is inside the vector
InTokens(tokens, pos) == pos \in 1..Len(tokens)

\* Ok((node, pos))
Parsed(node, pos) == [k |-> "Ok", node |-> node, pos |-> pos]

\* Err((msg, pos))
Failure(msg, pos) == [k |-> "Err", msg |-> msg, pos |-> pos]

\* tokens[pos] with pos >= tokens.len(): the thread panics
OutOfBounds(pos) == [k |-> "Panic", pos |-> pos]

\* Only([x \in {v} |-> e]) is e with v for x: v is computed once
Only(f) == f[CHOOSE x \in DOMAIN f : TRUE]

match_type(token, tok_types) ==
    /\ token.token_type # "Eof"
    /\ token.token_type \in tok_types

check_token(token, tok_type) ==
    /\ token.token_type # "Eof"
    /\ token.token_type = tok_type

\* consume, with the map_err of its callers: Err carries the position
consume(expect, tokens, pos, err_msg) ==
    IF ~InTokens(tokens, pos) THEN OutOfBounds(pos)
    ELSE IF tokens[pos].token_type = expect
    THEN Parsed(tokens[pos], pos + 1)
    ELSE Failure(err_msg, pos)

\* the levels of left-associative operators, loosest first
OperatorTypes(level) ==
    CASE level = "or" -> {"Or"}
      [] level = "and" -> {"And"}
      [] level = "equality" -> {"BangEqual", "EqualEqual"}
      [] level = "comparison" ->
            {"Greater", "GreaterEqual", "Less", "LessEqual"}
      [] level = "addition" -> {"Plus", "Minus"}
      [] level = "multiplication" -> {"Star", "Slash"}

\* Expr::logical for or / and, Expr::binary for the other levels
OperatorNode(level, left, operator, right) ==
    IF level \in {"or", "and"} THEN Logical(left, operator, right)
    ELSE Binary(left, operator, right)

\* Literal::True, Literal::False, Literal::Nil and the literal of a token
LiteralOf(token) ==
    CASE token.token_type = "True" -> Literal(Boolean(TRUE))
      [] token.token_type = "False" -> Literal(Boolean(FALSE))
      [] token.token_type = "Nil" -> Literal(Nil)
      [] OTHER -> Literal(token.literal[1])

RECURSIVE expression(_, _), assignment(_, _), or(_, _), and(_, _),
          equality(_, _), comparison(_, _), addition(_, _),
          multiplication(_, _), unary(_, _), call_expr(_, _), primary(_, _),
          operand(_, _, _), operators(_, _, _, _), arguments(_, _, _),
          call_loop(_, _, _), arguments_uncapped(_, _, _)

primary(tokens, pos) ==
    IF ~InTokens(tokens, pos) THEN OutOfBounds(pos)
    ELSE LET token == tokens[pos] IN
    CASE token.token_type \in {"False", "True", "Nil"} ->
            Parsed(LiteralOf(token), pos + 1)
      [] token.token_type \in {"Number", "String"} ->
            IF token.literal # None THEN Parsed(LiteralOf(token), pos + 1)
            ELSE Failure("Expect literal value.", pos)
      [] token.token_type = "LeftParen" ->
            Only([inner \in {expression(tokens, pos + 1)} |->
            IF inner.k # "Ok" THEN inner
            ELSE IF ~InTokens(tokens, inner.pos) THEN OutOfBounds(inner.pos)
            ELSE IF tokens[inner.pos].token_type = "RightParen"
            THEN Parsed(Grouping(inner.node), inner.pos + 1)
            ELSE Failure("Expect ')' after expression.", inner.pos)])
      [] token.token_type = "Identifier" ->
            Parsed(Variable(token, pos), pos + 1)
      [] OTHER -> Failure("Expect expression", pos)

\* an argument list without the cap
arguments_uncapped(tokens, args, pos) ==
    Only([arg \in {expression(tokens, pos)} |->
    IF arg.k # "Ok" THEN arg
    ELSE IF ~InTokens(tokens, arg.pos) THEN OutOfBounds(arg.pos)
    ELSE IF tokens[arg.pos].token_type = "Comma"
    THEN arguments_uncapped(tokens, Append(args, arg.node), arg.pos + 1)
    ELSE Parsed(Append(args, arg.node), arg.pos)])

\* the inner loop of call: one argument, then a comma or the end
arguments(tokens, args, pos) ==
    IF Len(args) >= MaxArguments
    THEN Failure("Cannot have more than 8 arguments.", pos)
    ELSE Only([arg \in {expression(tokens, pos)} |->
    IF arg.k # "Ok" THEN arg
    ELSE IF ~InTokens(tokens, arg.pos) THEN OutOfBounds(arg.pos)
    ELSE IF tokens[arg.pos].token_type = "Comma"
    THEN arguments(tokens, Append(args, arg.node), arg.pos + 1)
    ELSE Parsed(Append(args, arg.node), arg.pos)])

\* the outer loop of call: every `(` starts another call on the callee
call_loop(tokens, expr, pos) ==
    IF ~InTokens(tokens, pos) THEN OutOfBounds(pos)
    ELSE IF tokens[pos].token_type # "LeftParen" THEN Parsed(expr, pos)
    ELSE IF ~InTokens(tokens, pos + 1) THEN OutOfBounds(pos + 1)
    ELSE Only([args \in {IF check_token(tokens[pos + 1], "RightParen")
             THEN Parsed(<<>>, pos + 1)
             ELSE arguments(tokens, <<>>, pos + 1)} |->
    IF args.k # "Ok" THEN args
    ELSE IF tokens[args.pos].token_type = "RightParen"
    THEN call_loop(tokens, Call(expr, tokens[args.pos], args.node),
                   args.pos + 1)
    ELSE Failure("Expect ')' after arguments.", args.pos)])

call_expr(tokens, pos) ==
    Only([callee \in {primary(tokens, pos)} |->
    IF callee.k # "Ok" THEN callee
    ELSE call_loop(tokens, callee.node, callee.pos)])

unary(tokens, pos) ==
    IF ~InTokens(tokens, pos) THEN OutOfBounds(pos)
    ELSE IF match_type(tokens[pos], {"Bang", "Minus"})
    THEN Only([right \in {unary(tokens, pos + 1)} |->
         IF right.k # "Ok" THEN right
         ELSE Parsed(Unary(tokens[pos], right.node), right.pos)])
    ELSE call_expr(tokens, pos)

\* what a level parses on either side of its operators
operand(level, tokens, pos) ==
    CASE level = "or" -> and(tokens, pos)
      [] level = "and" -> equality(tokens, pos)
      [] level = "equality" -> comparison(tokens, pos)
      [] level = "comparison" -> addition(tokens, pos)
      [] level = "addition" -> multiplication(tokens, pos)
      [] level = "multiplication" -> unary(tokens, pos)

\* the while loop of a level: operator, right operand, fold to the left
operators(level, tokens, expr, pos) ==
    IF ~InTokens(tokens, pos) THEN OutOfBounds(pos)
    ELSE IF ~match_type(tokens[pos], OperatorTypes(level))
    THEN Parsed(expr, pos)
    ELSE Only([right \in {operand(level, tokens, pos + 1)} |->
    IF right.k # "Ok" THEN right
    ELSE operators(level, tokens,
                   OperatorNode(level, expr, tokens[pos], right.node),
                   right.pos)])

multiplication(tokens, pos) ==
    Only([left \in {unary(tokens, pos)} |->
    IF left.k # "Ok" THEN left
    ELSE operators("multiplication", tokens, left.node, left.pos)])

addition(tokens, pos) ==
    Only([left \in {multiplication(tokens, pos)} |->
    IF left.k # "Ok" THEN left
    ELSE operators("addition", tokens, left.node, left.pos)])

comparison(tokens, pos) ==
    Only([left \in {addition(tokens, pos)} |->
    IF left.k # "Ok" THEN left
    ELSE operators("comparison", tokens, left.node, left.pos)])

equality(tokens, pos) ==
    Only([left \in {comparison(tokens, pos)} |->
    IF left.k # "Ok" THEN left
    ELSE operators("equality", tokens, left.node, left.pos)])

and(tokens, pos) ==
    Only([left \in {equality(tokens, pos)} |->
    IF left.k # "Ok" THEN left
    ELSE operators("and", tokens, left.node, left.pos)])

or(tokens, pos) ==
    Only([left \in {and(tokens, pos)} |->
    IF left.k # "Ok" THEN left
    ELSE operators("or", tokens, left.node, left.pos)])

\* the value is parsed before the target is inspected
assignment(tokens, pos) ==
    Only([target \in {or(tokens, pos)} |->
    IF target.k # "Ok" THEN target
    ELSE IF ~InTokens(tokens, target.pos) THEN OutOfBounds(target.pos)
    ELSE IF ~match_type(tokens[target.pos], {"Equal"}) THEN target
    ELSE Only([value \in {assignment(tokens, target.pos + 1)} |->
    IF value.k = "Panic" THEN value
    ELSE IF target.node.k # "Variable"
    THEN Failure("Invalid assignment target.", target.pos)
    ELSE IF value.k # "Ok" THEN value
    ELSE Parsed(Assign(target.node.name, value.node, target.pos),
                value.pos)])])

expression(tokens, pos) == assignment(tokens, pos)

RECURSIVE declaration(_, _), class_declaration(_, _), fun_declaration(_, _),
          var_declaration(_, _), statement(_, _), if_statement(_, _),
          for_statement(_, _), for_stmt_initializer(_, _),
          for_stmt_condition(_, _), for_stmt_increment(_, _),
          while_statement(_, _), print_statement(_, _),
          return_statement(_, _), block_statement(_, _),
          expression_statement(_, _), parameters(_, _, _), methods(_, _, _),
          block(_, _, _)

expression_statement(tokens, pos) ==
    Only([expr \in {expression(tokens, pos)} |->
    IF expr.k # "Ok" THEN expr
    ELSE IF ~InTokens(tokens, expr.pos) THEN OutOfBounds(expr.pos)
    ELSE IF match_type(tokens[expr.pos], {"Semicolon"})
    THEN Parsed(ExprStmt(expr.node), expr.pos + 1)
    ELSE Failure("Expect ';' after value.", expr.pos)])

\* the while loop of block_statement, then its closing brace
block(tokens, statements, pos) ==
    IF ~InTokens(tokens, pos) THEN OutOfBounds(pos)
    ELSE IF /\ ~match_type(tokens[pos], {"RightBrace"})
            /\ tokens[pos].token_type # "Eof"
    THEN Only([stmt \in {declaration(tokens, pos)} |->
         IF stmt.k # "Ok" THEN stmt
         ELSE block(tokens, Append(statements, stmt.node), stmt.pos)])
    ELSE IF tokens[pos].token_type = "RightBrace"
    THEN Parsed(BlockStmt(statements), pos + 1)
    ELSE Failure("Expect '}' after block.", pos)

block_statement(tokens, pos) == block(tokens, <<>>, pos)

return_statement(tokens, pos) ==
    IF ~InTokens(tokens, pos) THEN OutOfBounds(pos)
    ELSE Only([value \in {IF check_token(tokens[pos], "Semicolon")
             THEN Parsed(None, pos)
             ELSE Only([expr \in {expression(tokens, pos)} |->
                  IF expr.k # "Ok" THEN expr
                  ELSE Parsed(Some(expr.node), expr.pos)])} |->
    IF value.k # "Ok" THEN value
    ELSE IF ~InTokens(tokens, value.pos) THEN OutOfBounds(value.pos)
    ELSE IF tokens[value.pos].token_type = "Semicolon"
    THEN Parsed(ReturnStmt(tokens[pos - 1], value.node), value.pos + 1)
    ELSE Failure("Expect ';' after return value.", value.pos)])

print_statement(tokens, pos) ==
    Only([expr \in {expression(tokens, pos)} |->
    IF expr.k # "Ok" THEN expr
    ELSE IF ~InTokens(tokens, expr.pos) THEN OutOfBounds(expr.pos)
    ELSE IF match_type(tokens[expr.pos], {"Semicolon"})
    THEN Parsed(PrintStmt(expr.node), expr.pos + 1)
    ELSE Failure("Expect ';' after value.", expr.pos)])

while_statement(tokens, pos) ==
    IF ~InTokens(tokens, pos) THEN OutOfBounds(pos)
    ELSE IF tokens[pos].token_type # "LeftParen"
    THEN Failure("Expect '(' after 'while'.", pos)
    ELSE Only([condition \in {expression(tokens, pos + 1)} |->
    IF condition.k # "Ok" THEN condition
    ELSE IF ~InTokens(tokens, condition.pos) THEN OutOfBounds(condition.pos)
    ELSE IF tokens[condition.pos].token_type # "RightParen"
    THEN Failure("Expect ')' after if condition.", condition.pos)
    ELSE Only([body \in {statement(tokens, condition.pos + 1)} |->
    IF body.k # "Ok" THEN body
    ELSE Parsed(WhileStmt(condition.node, body.node), body.pos)])])

\* None when the clause is omitted, else Some(result); the panic of an
\* index beyond the vector travels as the result
for_stmt_increment(tokens, pos) ==
    IF ~InTokens(tokens, pos) THEN Some(OutOfBounds(pos))
    ELSE IF tokens[pos].token_type = "RightParen" THEN None
    ELSE Some(expression(tokens, pos))

for_stmt_condition(tokens, pos) ==
    IF ~InTokens(tokens, pos) THEN Some(OutOfBounds(pos))
    ELSE IF tokens[pos].token_type = "Semicolon" THEN None
    ELSE Some(expression(tokens, pos))

\* the expression statement of an initializer is parsed from pos + 1
for_stmt_initializer(tokens, pos) ==
    IF ~InTokens(tokens, pos) THEN Some(OutOfBounds(pos))
    ELSE IF tokens[pos].token_type = "Semicolon" THEN None
    ELSE IF tokens[pos].token_type = "Var"
    THEN Some(var_declaration(tokens, pos + 1))
    ELSE Some(expression_statement(tokens, pos + 1))

\* the position behind a clause: start when the clause is omitted
for_clause_end(clause, start) ==
    IF clause = None THEN start ELSE clause[1].pos

\* the statement for_statement builds from its clauses and the body
for_tree(initializer, condition, increment, body) ==
    LET inner == IF increment = None THEN body
                 ELSE BlockStmt(<<body, ExprStmt(increment[1].node)>>)
        loop == WhileStmt(IF condition = None THEN Literal(Boolean(TRUE))
                          ELSE condition[1].node,
                          inner)
    IN  IF initializer = None THEN loop
        ELSE BlockStmt(<<initializer[1].node, loop>>)

for_statement(tokens, pos) ==
    IF ~InTokens(tokens, pos) THEN OutOfBounds(pos)
    ELSE IF tokens[pos].token_type # "LeftParen"
    THEN Failure("Expect '(' after 'for'.", pos)
    ELSE Only([initializer \in {for_stmt_initializer(tokens, pos + 1)} |->
    IF initializer # None /\ initializer[1].k # "Ok" THEN initializer[1]
    ELSE Only([condition \in {for_stmt_condition(tokens,
                                for_clause_end(initializer, pos + 2))} |->
    IF condition # None /\ condition[1].k # "Ok" THEN condition[1]
    ELSE Only([pos2 \in {for_clause_end(condition,
                              for_clause_end(initializer, pos + 2))} |->
    IF ~InTokens(tokens, pos2) THEN OutOfBounds(pos2)
    ELSE IF tokens[pos2].token_type # "Semicolon"
    THEN Failure("Expect ';' after loop condition.", pos2)
    ELSE Only([increment \in {for_stmt_increment(tokens, pos2 + 1)} |->
    IF increment # None /\ increment[1].k # "Ok" THEN increment[1]
    ELSE Only([pos3 \in {for_clause_end(increment, pos2 + 1)} |->
    IF ~InTokens(tokens, pos3) THEN OutOfBounds(pos3)
    ELSE IF tokens[pos3].token_type # "RightParen"
    THEN Failure("Expect ')' after for clauses.", pos3)
    ELSE Only([body \in {statement(tokens, pos3 + 1)} |->
    IF body.k # "Ok" THEN body
    ELSE Parsed(for_tree(initializer, condition, increment, body.node),
                body.pos)])])])])])])

if_statement(tokens, pos) ==
    IF ~InTokens(tokens, pos) THEN OutOfBounds(pos)
    ELSE IF tokens[pos].token_type # "LeftParen"
    THEN Failure("Expect '(' after 'if'.", pos)
    ELSE Only([condition \in {expression(tokens, pos + 1)} |->
    IF condition.k # "Ok" THEN condition
    ELSE IF ~InTokens(tokens, condition.pos) THEN OutOfBounds(condition.pos)
    ELSE IF tokens[condition.pos].token_type # "RightParen"
    THEN Failure("Expect ')' after if condition.", condition.pos)
    ELSE Only([then_branch \in {statement(tokens, condition.pos + 1)} |->
    IF then_branch.k # "Ok" THEN then_branch
    ELSE IF ~InTokens(tokens, then_branch.pos)
    THEN OutOfBounds(then_branch.pos)
    ELSE IF tokens[then_branch.pos].token_type # "Else"
    THEN Parsed(IfStmt(condition.node, then_branch.node, None),
                then_branch.pos)
    ELSE Only([else_branch \in {statement(tokens, then_branch.pos + 1)} |->
    IF else_branch.k # "Ok" THEN else_branch
    ELSE Parsed(IfStmt(condition.node, then_branch.node,
                       Some(else_branch.node)),
                else_branch.pos)])])])

statement(tokens, pos) ==
    IF ~InTokens(tokens, pos) THEN OutOfBounds(pos)
    ELSE CASE tokens[pos].token_type = "If" -> if_statement(tokens, pos + 1)
           [] tokens[pos].token_type = "For" -> for_statement(tokens, pos + 1)
           [] tokens[pos].token_type = "LeftBrace" ->
                 block_statement(tokens, pos + 1)
           [] tokens[pos].token_type = "Print" ->
                 print_statement(tokens, pos + 1)
           [] tokens[pos].token_type = "Return" ->
                 return_statement(tokens, pos + 1)
           [] tokens[pos].token_type = "While" ->
                 while_statement(tokens, pos + 1)
           [] OTHER -> expression_statement(tokens, pos)

var_declaration(tokens, pos) ==
    IF ~InTokens(tokens, pos) THEN OutOfBounds(pos)
    ELSE IF ~match_type(tokens[pos], {"Identifier"})
    THEN Failure("Expect variable name.", pos)
    ELSE IF ~InTokens(tokens, pos + 1) THEN OutOfBounds(pos + 1)
    ELSE IF match_type(tokens[pos + 1], {"Equal"})
    THEN Only([initializer \in {expression(tokens, pos + 2)} |->
         IF initializer.k # "Ok" THEN initializer
         ELSE IF ~InTokens(tokens, initializer.pos)
         THEN OutOfBounds(initializer.pos)
         ELSE IF match_type(tokens[initializer.pos], {"Semicolon"})
         THEN Parsed(VarStmt(tokens[pos], Some(initializer.node)),
                     initializer.pos + 1)
         ELSE Failure("Expect ';' after variable declaration.",
                      initializer.pos)])
    ELSE IF match_type(tokens[pos + 1], {"Semicolon"})
    THEN Parsed(VarStmt(tokens[pos], None), pos + 2)
    ELSE Failure("Expect ';' after variable declaration.", pos + 1)

\* the loop of fun_declaration: one parameter, then a comma or the end
parameters(tokens, params, pos) ==
    IF Len(params) >= MaxArguments
    THEN Failure("Cannot have more than 8 arguments.", pos)
    ELSE IF ~InTokens(tokens, pos) THEN OutOfBounds(pos)
    ELSE IF tokens[pos].token_type # "Identifier"
    THEN Failure("Expect parameter name.", pos)
    ELSE IF ~InTokens(tokens, pos + 1) THEN OutOfBounds(pos + 1)
    ELSE IF tokens[pos + 1].token_type = "Comma"
    THEN parameters(tokens, Append(params, tokens[pos]), pos + 2)
    ELSE Parsed(Append(params, tokens[pos]), pos + 1)

fun_declaration(tokens, pos) ==
    IF ~InTokens(tokens, pos) THEN OutOfBounds(pos)
    ELSE IF tokens[pos].token_type # "Identifier"
    THEN Failure("Expect function or method name.", pos)
    ELSE IF ~InTokens(tokens, pos + 1) THEN OutOfBounds(pos + 1)
    ELSE IF tokens[pos + 1].token_type # "LeftParen"
    THEN Failure("Expect '(' after function or method name.", pos + 1)
    ELSE IF ~InTokens(tokens, pos + 2) THEN OutOfBounds(pos + 2)
    ELSE Only([params \in {IF check_token(tokens[pos + 2], "RightParen")
             THEN Parsed(<<>>, pos + 2)
             ELSE parameters(tokens, <<>>, pos + 2)} |->
    IF params.k # "Ok" THEN params
    ELSE IF tokens[params.pos].token_type # "RightParen"
    THEN Failure("Expect ')' after parameters.", params.pos)
    ELSE IF ~InTokens(tokens, params.pos + 1)
    THEN OutOfBounds(params.pos + 1)
    ELSE IF tokens[params.pos + 1].token_type # "LeftBrace"
    THEN Failure("Expect '{{' before function or method body.", params.pos)
    ELSE Only([body \in {block_statement(tokens, params.pos + 2)} |->
    IF body.k # "Ok" THEN body
    ELSE Parsed(FunStmt(tokens[pos], params.node, body.node.statements),
                body.pos)])])

\* the while loop of class_declaration, then its closing brace
methods(tokens, funs, pos) ==
    IF ~InTokens(tokens, pos) THEN OutOfBounds(pos)
    ELSE IF ~check_token(tokens[pos], "RightBrace")
    THEN Only([fun \in {fun_declaration(tokens, pos)} |->
         IF fun.k # "Ok" THEN fun
         ELSE methods(tokens, Append(funs, fun.node), fun.pos)])
    ELSE Only([brace \in {consume("RightBrace", tokens, pos,
                     "Expect '}' after class body.")} |->
         IF brace.k # "Ok" THEN brace
         ELSE Parsed(funs, brace.pos)])

class_declaration(tokens, pos) ==
    Only([name \in {consume("Identifier", tokens, pos, "Expect class name.")} |->
    IF name.k # "Ok" THEN name
    ELSE Only([brace \in {consume("LeftBrace", tokens, name.pos,
                     "Expect '{' before class body.")} |->
    IF brace.k # "Ok" THEN brace
    ELSE Only([funs \in {methods(tokens, <<>>, brace.pos)} |->
    IF funs.k # "Ok" THEN funs
    ELSE Parsed(ClassStmt(name.node, funs.node), funs.pos)])])])

declaration(tokens, pos) ==
    IF ~InTokens(tokens, pos) THEN OutOfBounds(pos)
    ELSE CASE tokens[pos].token_type = "Class" ->
                 class_declaration(tokens, pos + 1)
           [] tokens[pos].token_type = "Fun" ->
                 fun_declaration(tokens, pos + 1)
           [] tokens[pos].token_type = "Var" ->
                 var_declaration(tokens, pos + 1)
           [] OTHER -> statement(tokens, pos)

\* the keywords error recovery stops in front of
SyncKeywords ==
    {"Class", "Fun", "Var", "For", "If", "While", "Print", "Return"}

RECURSIVE synchronize_past_keywords(_, _)

\* a recovery that stops only behind a semicolon
synchronize_past_keywords(tokens, next_pos) ==
    IF ~InTokens(tokens, next_pos) THEN next_pos
    ELSE IF tokens[next_pos].token_type = "Eof" THEN next_pos
    ELSE IF tokens[next_pos - 1].token_type = "Semicolon" THEN next_pos
    ELSE synchronize_past_keywords(tokens, next_pos + 1)

RECURSIVE synchronize(_, _)

\* the inner while loop of parse: skip to a statement boundary
synchronize(tokens, next_pos) ==
    IF ~InTokens(tokens, next_pos) THEN next_pos
    ELSE IF tokens[next_pos].token_type = "Eof" THEN next_pos
    ELSE IF tokens[next_pos - 1].token_type = "Semicolon" THEN next_pos
    ELSE IF tokens[next_pos].token_type \in SyncKeywords THEN next_pos
    ELSE synchronize(tokens, next_pos + 1)

\* the locals of parse once scan_tokens has returned the tokens
parse_begin(tokens) ==
    [tokens |-> tokens, pos |-> 1, statements |-> <<>>, errors |-> <<>>,
     result |-> None]

\* what the head of the outer loop meets at pos
parse_current(p) ==
    IF ~InTokens(p.tokens, p.pos) THEN OutOfBounds(p.pos)
    ELSE IF p.tokens[p.pos].token_type = "Eof" THEN [k |-> "Eof"]
    ELSE declaration(p.tokens, p.pos)

\* the panic of parse: no value is returned
ParseAborted == [k |-> "Panic"]

\* the Err arm of the outer loop: the error is pushed and the position
\* moves to where synchronize stopped
parse_resume(p, r, resumed) ==
    IF ~InTokens(p.tokens, resumed)
    THEN [p EXCEPT !.result = Some(ParseAborted)]
    ELSE [p EXCEPT !.errors = Append(@, ParseError(p.tokens[r.pos].line,
                                                   p.tokens[r.pos].lexeme,
                                                   r.msg)),
                   !.pos = resumed]

parse_recover(p, r) ==
    IF ~InTokens(p.tokens, r.pos)
    THEN [p EXCEPT !.result = Some(ParseAborted)]
    ELSE parse_resume(p, r,
            synchronize(p.tokens,
                        IF p.tokens[r.pos].token_type # "Eof"
                        THEN r.pos + 1 ELSE r.pos))

\* one pass through the outer loop of parse, or its end
parse_iteration(p, r) ==
    CASE r.k = "Ok" ->
            [p EXCEPT !.statements = Append(@, r.node), !.pos = r.pos]
      [] r.k = "Err" -> parse_recover(p, r)
      [] r.k = "Panic" -> [p EXCEPT !.result = Some(ParseAborted)]
      [] r.k = "Eof" ->
            [p EXCEPT !.result = Some(parse_result(p.statements, p.errors))]

\* the position an iteration met, where it failed, and where it went on
parse_event(p, r, q) ==
    [ev |-> r.k, from |-> p.pos,
     at |-> IF r.k \in {"Err", "Panic"} THEN r.pos ELSE p.pos,
     to |-> q.pos]

parse_write(p, r, q) ==
    /\ parser' = q
    /\ log' = Append(log, parse_event(p, r, q))

parse_store(k, r) ==
    /\ r.k = k
    /\ parse_write(parser, r, parse_iteration(parser, r))

\* what parse leaves alone
ParseFrame ==
    UNCHANGED <<source, parseErrors, pc, scopes, current_fun, locals, heap,
                environment, next_id, idx, errors, result, out, now,
                env_rs, scanner, process>>

\* declaration returned Ok: the statement is pushed
ParseDeclaration ==
    /\ pc = "parse"
    /\ parser.result = None
    /\ parse_store("Ok", parse_current(parser))
    /\ ParseFrame

\* declaration returned Err: the error is pushed, the tokens are skipped
ParseRecover ==
    /\ pc = "parse"
    /\ parser.result = None
    /\ parse_store("Err", parse_current(parser))
    /\ ParseFrame

\* an index beyond the vector: the thread panics
ParseAbort ==
    /\ pc = "parse"
    /\ parser.result = None
    /\ parse_store("Panic", parse_current(parser))
    /\ ParseFrame

\* the Eof token ends the loop: Ok(statements) or Err(errors)
ParseReturn ==
    /\ pc = "parse"
    /\ parser.result = None
    /\ parse_store("Eof", parse_current(parser))
    /\ ParseFrame

ParseNext == ParseDeclaration \/ ParseRecover \/ ParseAbort \/ ParseReturn

-----------------------------------------------------------------------------
(* Token vectors for the parser: every short vector over a small alphabet, *)
(* for statements with each clause present or omitted, and calls and       *)
(* function declarations of every length up to MaxCount.  Every vector     *)
(* ends with the Eof token, as the vectors of scan_tokens do.              *)

\* the longest vector of arbitrary tokens (the Eof token not counted)
MaxTokens == 4

\* the largest number of arguments and of parameters
MaxCount == 10

TokenAlphabet ==
    {"Semicolon", "Print", "Number", "Identifier", "For", "LeftParen",
     "Var", "Equal"}

Text(tt) ==
    CASE tt = "Semicolon" -> ";"  [] tt = "Print" -> "print"
      [] tt = "For" -> "for"      [] tt = "LeftParen" -> "("
      [] tt = "RightParen" -> ")" [] tt = "Var" -> "var"
      [] tt = "Equal" -> "="      [] tt = "Less" -> "<"
      [] tt = "Plus" -> "+"       [] tt = "Comma" -> ","
      [] tt = "Fun" -> "fun"      [] tt = "LeftBrace" -> "{"
      [] tt = "RightBrace" -> "}" [] tt = "Eof" -> ""
      [] tt = "Class" -> "class"  [] tt = "If" -> "if"
      [] tt = "Else" -> "else"    [] tt = "While" -> "while"
      [] tt = "Return" -> "return" [] tt = "True" -> "true"

\* the i-th token of a vector: numbers and names are told apart by i
TokenAt(tt, i) ==
    CASE tt = "Number" -> Token_new(tt, ToString(i), Some(Number(i)), 1)
      [] tt = "Identifier" -> Token_new(tt, "a" \o ToString(i), None, 1)
      [] OTHER -> Token_new(tt, Text(tt), None, 1)

TokensOf(types) == [i \in 1..Len(types) |-> TokenAt(types[i], i)]

Clauses == {"omitted", "present"}

Initializers == {"omitted", "var", "expression"}

InitTypes(init) ==
    CASE init = "omitted" -> <<"Semicolon">>
      [] init = "var" -> <<"Var", "Identifier", "Equal", "Number", "Semicolon">>
      [] init = "expression" -> <<"Identifier", "Equal", "Number", "Semicolon">>

CondTypes(cond) ==
    IF cond = "omitted" THEN <<>> ELSE <<"Identifier", "Less", "Number">>

IncTypes(inc) ==
    IF inc = "omitted" THEN <<>>
    ELSE <<"Identifier", "Equal", "Identifier", "Plus", "Number">>

\* for (init cond; inc) print a;
ForTypes(init, cond, inc) ==
    <<"For", "LeftParen">> \o InitTypes(init) \o CondTypes(cond)
    \o <<"Semicolon">> \o IncTypes(inc)
    \o <<"RightParen", "Print", "Identifier", "Semicolon", "Eof">>

\* n items of one type, separated by commas
Listed(tt, n) ==
    [i \in 1..(IF n = 0 THEN 0 ELSE 2 * n - 1) |->
        IF i % 2 = 1 THEN tt ELSE "Comma"]

\* a1(3, 5, ...);
CallTypes(n) ==
    <<"Identifier", "LeftParen">> \o Listed("Number", n)
    \o <<"RightParen", "Semicolon", "Eof">>

\* fun a2(a4, a6, ...) { }
FunTypes(n) ==
    <<"Fun", "Identifier", "LeftParen">> \o Listed("Identifier", n)
    \o <<"RightParen", "LeftBrace", "RightBrace", "Eof">>

\* class a2 { a4() { while (true) if (a12) return; else { } } }
SampleTypes ==
    <<"Class", "Identifier", "LeftBrace", "Identifier", "LeftParen",
      "RightParen", "LeftBrace", "While", "LeftParen", "True", "RightParen",
      "If", "LeftParen", "Identifier", "RightParen", "Return", "Semicolon",
      "Else", "LeftBrace", "RightBrace", "RightBrace", "RightBrace", "Eof">>

ParseInit ==
    /\ \/ \E n \in 0..MaxTokens : \E types \in [1..n -> TokenAlphabet] :
             parser = parse_begin(TokensOf(Append(types, "Eof")))
       \/ \E init \in Initializers, cond \in Clauses, inc \in Clauses :
             parser = parse_begin(TokensOf(ForTypes(init, cond, inc)))
       \/ \E n \in 0..MaxCount : parser = parse_begin(TokensOf(CallTypes(n)))
       \/ \E n \in 0..MaxCount : parser = parse_begin(TokensOf(FunTypes(n)))
       \/ parser = parse_begin(TokensOf(SampleTypes))
    /\ pc = "parse"
    /\ log = <<>>
    /\ source = <<>>
    /\ parseErrors = <<>>
    /\ scopes = <<>>
    /\ current_fun = None
    /\ locals = EmptyMap
    /\ heap = <<>>
    /\ environment = 1
    /\ next_id = 1
    /\ idx = 1
    /\ errors = <<>>
    /\ result = None
    /\ out = <<>>
    /\ now = 1
    /\ env_rs = <<>>
    /\ scanner = <<>>
    /\ process = <<>>

ParseSpec == ParseInit /\ [][ParseNext]_vars

-----------------------------------------------------------------------------
(* The scanner (src/scanner.rs).  A source is a sequence of characters,    *)
(* a character a string of length one; start and current count from 0 as   *)
(* in the code.  An f64 is modelled by its digits and the number of them   *)
(* behind the decimal point.                                               *)

\* the longest source
MaxSource == 4

\* usize::MAX, which a position never reaches
UsizeMax == 2147483647

\* '\0', which peek and peek_next return at the end
Nul == "\\0"

\* the character nth(index) has none of
NoChar == "none"

Digits == {"0", "1", "2", "3", "4", "5", "6", "7", "8", "9"}

Letters ==
    {"a", "b", "c", "d", "e", "f", "g", "h", "i", "j", "k", "l", "m", "n",
     "o", "p", "q", "r", "s", "t", "u", "v", "w", "x", "y", "z",
     "A", "B", "C", "D", "E", "F", "G", "H", "I", "J", "K", "L", "M", "N",
     "O", "P", "Q", "R", "S", "T", "U", "V", "W", "X", "Y", "Z", "_"}

is_digit(c) == c \in Digits

is_alpha(c) == c \in Letters

is_alphanumeric(c) == is_alpha(c) \/ is_digit(c)

keywords_map ==
    [text \in {"and", "class", "else", "false", "for", "fun", "if", "nil",
               "or", "print", "return", "super", "this", "true", "var",
               "while"} |->
        CASE text = "and" -> "And"       [] text = "class" -> "Class"
          [] text = "else" -> "Else"     [] text = "false" -> "False"
          [] text = "for" -> "For"       [] text = "fun" -> "Fun"
          [] text = "if" -> "If"         [] text = "nil" -> "Nil"
          [] text = "or" -> "Or"         [] text = "print" -> "Print"
          [] text = "return" -> "Return" [] text = "super" -> "Super"
          [] text = "this" -> "This"     [] text = "true" -> "True"
          [] text = "var" -> "Var"       [] text = "while" -> "While"]

\* the tokens of one character
SingleCharTokens ==
    [c \in {"(", ")", "{", "}", ",", ".", "-", "+", ";", "*"} |->
        CASE c = "(" -> "LeftParen"  [] c = ")" -> "RightParen"
          [] c = "{" -> "LeftBrace"  [] c = "}" -> "RightBrace"
          [] c = "," -> "Comma"      [] c = "." -> "Dot"
          [] c = "-" -> "Minus"      [] c = "+" -> "Plus"
          [] c = ";" -> "Semicolon"  [] c = "*" -> "Star"]

\* the tokens of one character that a following `=` makes another token
PairTokens ==
    [c \in {"!", "=", "<", ">"} |->
        CASE c = "!" -> <<"BangEqual", "Bang">>
          [] c = "=" -> <<"EqualEqual", "Equal">>
          [] c = "<" -> <<"LessEqual", "Less">>
          [] c = ">" -> <<"GreaterEqual", "Greater">>]

RECURSIVE Join(_)

\* the String of a sequence of characters
Join(chars) ==
    IF chars = <<>> THEN "" ELSE chars[1] \o Join(Tail(chars))

\* s.chars().skip(start).take(end - start).collect()
substr(s, start, end) ==
    Join(SubSeq(s, start + 1, IF end < Len(s) THEN end ELSE Len(s)))

DigitValue(c) ==
    CASE c = "0" -> 0 [] c = "1" -> 1 [] c = "2" -> 2 [] c = "3" -> 3
      [] c = "4" -> 4 [] c = "5" -> 5 [] c = "6" -> 6 [] c = "7" -> 7
      [] c = "8" -> 8 [] c = "9" -> 9

RECURSIVE parse_f64(_, _, _)

\* str::parse::<f64> of digits with at most one point between them
parse_f64(chars, digits, scale) ==
    IF chars = <<>> THEN [digits |-> digits, scale |-> scale]
    ELSE IF chars[1] = "." THEN parse_f64(Tail(chars), digits, 0)
    ELSE parse_f64(Tail(chars), 10 * digits + DigitValue(chars[1]),
                   IF scale < 0 THEN scale ELSE scale + 1)

UnexpectedCharError(line) == [msg |-> "Unexpected character.", line |-> line]

UnterminatedStringError(line) ==
    [msg |-> "Unterminated string.", line |-> line]

Scanner_new(chars) ==
    [source |-> chars, source_len |-> Len(chars), tokens |-> <<>>,
     start |-> 0, current |-> 0, line |-> 1, errors |-> <<>>,
     result |-> None]

\* source_len - 1 panics in a build with overflow checks when the source
\* is empty
is_at_end_panics(s, checked) == checked /\ s.source_len = 0

\* self.current >= self.source_len - 1; without overflow checks 0 - 1 is
\* usize::MAX
is_at_end(s) ==
    s.current >= (IF s.source_len = 0 THEN UsizeMax ELSE s.source_len - 1)

\* nth(index).unwrap() panics beyond the source
char_at(s, index) ==
    IF index < Len(s.source) THEN s.source[index + 1] ELSE NoChar

inc_current(s) == [s EXCEPT !.current = @ + 1]

inc_line(s) == [s EXCEPT !.line = @ + 1]

peek(s) == IF is_at_end(s) THEN Nul ELSE char_at(s, s.current)

peek_next(s) ==
    IF s.current + 1 >= s.source_len THEN Nul
    ELSE char_at(s, s.current + 1)

\* the scanner behind the expected character, if it is the next one
next_match(s, expected) ==
    IF is_at_end(s) THEN s
    ELSE IF char_at(s, s.current) # expected THEN s
    ELSE inc_current(s)

\* Ok(()) with the scanner as scan_token left it
Scanned(s) == [k |-> "Ok", s |-> s]

\* Err(e)
ScanError(s, e) == [k |-> "Err", s |-> s, error |-> e]

add_token(s, token_type, literal) ==
    Scanned([s EXCEPT !.tokens =
                Append(@, Token_new(token_type,
                                    substr(s.source, s.start, s.current),
                                    literal, s.line))])

RECURSIVE string_body(_)

\* the while loop of handle_string_literal
string_body(s) ==
    IF peek(s) # "\"" /\ ~is_at_end(s)
    THEN string_body(inc_current(IF peek(s) = "\n" THEN inc_line(s) ELSE s))
    ELSE s

\* the closing quote is consumed and the text between the quotes is kept
string_token(s) ==
    add_token(s, "String",
              Some(String(substr(s.source, s.start + 1, s.current - 1))))

handle_string_literal(s) ==
    IF is_at_end(string_body(s))
    THEN ScanError(string_body(s),
                   UnterminatedStringError(string_body(s).line))
    ELSE string_token(inc_current(string_body(s)))

RECURSIVE digits(_)

\* while is_digit(self.peek()) { self.advance(); }
digits(s) == IF is_digit(peek(s)) THEN digits(inc_current(s)) ELSE s

\* the digits, and the point and the digits behind it when there are some
number_end(s) ==
    IF peek(digits(s)) = "." /\ is_digit(peek_next(digits(s)))
    THEN digits(inc_current(digits(s)))
    ELSE digits(s)

number_token(s) ==
    add_token(s, "Number",
              Some(Number(parse_f64(SubSeq(s.source, s.start + 1, s.current),
                                    0, -1))))

handle_number_literal(s) == number_token(number_end(s))

RECURSIVE alphanumerics(_)

\* while is_alphanumeric(self.peek()) { self.advance(); }
alphanumerics(s) ==
    IF is_alphanumeric(peek(s)) THEN alphanumerics(inc_current(s)) ELSE s

identifier_token(s, text) ==
    add_token(s,
              IF text \in DOMAIN keywords_map THEN keywords_map[text]
              ELSE "Identifier",
              None)

handle_identifier(s) ==
    identifier_token(alphanumerics(s),
                     substr(s.source, s.start, alphanumerics(s).current))

RECURSIVE comment(_)

\* while self.peek() != '\n' && !self.is_at_end() { self.advance(); }
comment(s) ==
    IF peek(s) # "\n" /\ ~is_at_end(s) THEN comment(inc_current(s)) ELSE s

\* scan_token behind its first character c
scan_from(s, c) ==
    CASE c = NoChar -> [k |-> "Panic", s |-> s]
      [] c \in {" ", "\r", "\t"} -> Scanned(s)
      [] c = "\n" -> Scanned(inc_line(s))
      [] c \in DOMAIN SingleCharTokens ->
            add_token(s, SingleCharTokens[c], None)
      [] c \in DOMAIN PairTokens ->
            add_token(next_match(s, "="),
                      IF next_match(s, "=") # s THEN PairTokens[c][1]
                      ELSE PairTokens[c][2],
                      None)
      [] c = "/" ->
            IF next_match(s, "/") # s
            THEN Scanned(comment(next_match(s, "/")))
            ELSE add_token(s, "Slash", None)
      [] c = "\"" -> handle_string_literal(s)
      [] OTHER ->
            IF is_digit(c) THEN handle_number_literal(s)
            ELSE IF is_alpha(c) THEN handle_identifier(s)
            ELSE ScanError(s, UnexpectedCharError(s.line))

\* let c = self.advance(); match c { .. }
scan_token(s) == scan_from(inc_current(s), char_at(s, s.current))

\* the panic of scan_tokens: no value is returned
ScanAborted == [k |-> "Panic"]

\* one pass through the loop of scan_tokens
scan_iteration(s, r) ==
    CASE r.k = "Ok" -> r.s
      [] r.k = "Err" -> [r.s EXCEPT !.errors = Append(@, r.error)]
      [] r.k = "Panic" -> [r.s EXCEPT !.result = Some(ScanAborted)]

\* behind the loop: the Eof token, then Err(errors) or Ok(()); the debug
\* print of the tokens in front of Ok(()) is left out
scan_end(s) ==
    [s EXCEPT !.tokens = Append(@, Token_new("Eof", "", None, s.line)),
              !.result = Some(IF Len(s.errors) > 0
                              THEN [k |-> "Err", errors |-> s.errors]
                              ELSE [k |-> "Ok"])]

\* what scanned the characters from start up to current, and how
scan_event(s, q) ==
    [start |-> s.current, end |-> q.current,
     tokens |-> Len(q.tokens) - Len(s.tokens),
     errors |-> Len(q.errors) - Len(s.errors)]

scan_write(s, q) ==
    /\ scanner' = q
    /\ log' = Append(log, scan_event(s, q))

\* what scan_tokens leaves alone
ScanFrame ==
    UNCHANGED <<source, parseErrors, pc, scopes, current_fun, locals, heap,
                environment, next_id, idx, errors, result, out, now,
                env_rs, parser, process>>

\* the loop of scan_tokens: self.start = self.current; self.scan_token()
ScanToken ==
    /\ pc = "scan"
    /\ scanner.result = None
    /\ \E checked \in BOOLEAN :
          /\ ~is_at_end_panics(scanner, checked)
          /\ ~is_at_end(scanner)
          /\ scan_write(scanner,
                scan_iteration(scanner,
                    scan_token([scanner EXCEPT !.start = scanner.current])))
    /\ ScanFrame

\* source_len - 1 overflows: the thread panics
ScanAbort ==
    /\ pc = "scan"
    /\ scanner.result = None
    /\ \E checked \in BOOLEAN : is_at_end_panics(scanner, checked)
    /\ scanner' = [scanner EXCEPT !.result = Some(ScanAborted)]
    /\ UNCHANGED log
    /\ ScanFrame

\* the end is reached: the Eof token is pushed and scan_tokens returns
ScanReturn ==
    /\ pc = "scan"
    /\ scanner.result = None
    /\ \E checked \in BOOLEAN :
          /\ ~is_at_end_panics(scanner, checked)
          /\ is_at_end(scanner)
    /\ scanner' = scan_end(scanner)
    /\ UNCHANGED log
    /\ ScanFrame

ScanNext == ScanToken \/ ScanAbort \/ ScanReturn

\* the characters sources are made of
SourceChars == {"a", "1", ";", "=", "\"", "@", " ", "\n"}

ScanInit ==
    /\ \E n \in 0..MaxSource : \E chars \in [1..n -> SourceChars] :
          scanner = Scanner_new(chars)
    /\ pc = "scan"
    /\ log = <<>>
    /\ source = <<>>
    /\ parseErrors = <<>>
    /\ scopes = <<>>
    /\ current_fun = None
    /\ locals = EmptyMap
    /\ heap = <<>>
    /\ environment = 1
    /\ next_id = 1
    /\ idx = 1
    /\ errors = <<>>
    /\ result = None
    /\ out = <<>>
    /\ now = 1
    /\ env_rs = <<>>
    /\ parser = <<>>
    /\ process = <<>>

ScanSpec == ScanInit /\ [][ScanNext]_vars

-----------------------------------------------------------------------------
(* Lexical facts of a program, read off the text alone: which names are    *)
(* declared where, and which constructs violate the static rules.          *)

\* the Variable and Assign nodes of an expression
RECURSIVE VarNodes(_)

VarNodes(e) ==
    CASE e.k = "Assign" ->
           {[id |-> e.scope_id, name |-> e.name.lexeme, line |-> e.name.line,
             read |-> FALSE]} \cup VarNodes(e.value)
      [] e.k = "Binary" -> VarNodes(e.left) \cup VarNodes(e.right)
      [] e.k = "Call" ->
           VarNodes(e.callee)
             \cup UNION {VarNodes(e.arguments[i]) : i \in 1..Len(e.arguments)}
      [] e.k = "Grouping" -> VarNodes(e.expression)
      [] e.k = "Literal" -> {}
      [] e.k = "Logical" -> VarNodes(e.left) \cup VarNodes(e.right)
      [] e.k = "Unary" -> VarNodes(e.right)
      [] e.k = "Variable" ->
           {[id |-> e.scope_id, name |-> e.name.lexeme, line |-> e.name.line,
             read |-> TRUE]}

\* the expressions a statement evaluates itself (not those of its parts)
OwnExprs(s) ==
    CASE s.k \in {"Expr", "Print"} -> {s.expression}
      [] s.k \in {"If", "While"} -> {s.condition}
      [] s.k = "Return" -> IF s.value = None THEN {} ELSE {s.value[1]}
      [] s.k = "Var" -> IF s.initializer = None THEN {} ELSE {s.initializer[1]}
      [] OTHER -> {}

OwnNodes(s) == UNION {VarNodes(e) : e \in OwnExprs(s)}

\* Lex walks a statement list.  ctx.declared is the sequence of name sets
\* of the enclosing scopes, outermost first, as declared so far (the top
\* level is the first one and counts as a scope iff ctx.top); the walk
\* yields the nodes whose name is declared in an enclosing scope, with the
\* number of scopes between, and the violations of the three static rules.
RECURSIVE LexStmt(_, _)
RECURSIVE LexStmts(_, _, _)

LexDeclare(ctx, token) ==
    LET d == Len(ctx.declared)
        counts == d > 1 \/ ctx.top
    IN  [ctx EXCEPT
           !.declared[d] = IF counts THEN @ \cup {token.lexeme} ELSE @,
           !.viols = IF token.lexeme \in ctx.declared[d]
                     THEN @ \cup {[line |-> token.line, kind |-> "dup"]}
                     ELSE @]

LexNodes(ctx, nodes) ==
    [ctx EXCEPT !.entries = @ \cup
        {[id |-> n.id,
          hops |-> Len(ctx.declared)
                     - Max({i \in 1..Len(ctx.declared) :
                              n.name \in ctx.declared[i]})] :
           n \in {m \in nodes : \E i \in 1..Len(ctx.declared) :
                                   m.name \in ctx.declared[i]}}]

LexEnter(ctx) == [ctx EXCEPT !.declared = Append(@, {})]

LexLeave(ctx, outer) ==
    [ctx EXCEPT !.declared = Front(@), !.inFun = outer.inFun]

LexStmts(ctx, stmts, i) ==
    IF i > Len(stmts) THEN ctx
    ELSE LexStmts(LexStmt(ctx, stmts[i]), stmts, i + 1)

RECURSIVE LexParams(_, _, _)

LexParams(ctx, params, i) ==
    IF i > Len(params) THEN ctx
    ELSE LexParams(LexDeclare(ctx, params[i]), params, i + 1)

LexStmt(ctx, s) ==
    CASE s.k = "Block" ->
           LexLeave(LexStmts(LexEnter(ctx), s.statements, 1), ctx)
      [] s.k = "Fun" ->
           LET c1 == LexEnter(LexDeclare(ctx, s.name))
               c2 == LexParams([c1 EXCEPT !.inFun = TRUE], s.parameters, 1)
           IN  LexLeave(LexStmts(c2, s.body, 1), ctx)
      [] s.k = "If" ->
           LET c1 == LexStmt(LexNodes(ctx, OwnNodes(s)), s.then_branch)
           IN  IF s.else_branch = None THEN c1
               ELSE LexStmt(c1, s.else_branch[1])
      [] s.k = "While" -> LexStmt(LexNodes(ctx, OwnNodes(s)), s.body)
      [] s.k = "Return" ->
           LET c1 == LexNodes(ctx, OwnNodes(s))
           IN  IF ctx.inFun THEN c1
               ELSE [c1 EXCEPT !.viols =
                        @ \cup {[line |-> s.keyword.line, kind |-> "ret"]}]
      [] s.k = "Var" ->
           LET c1 == LexNodes(LexDeclare(ctx, s.name), OwnNodes(s))
               own == {n \in OwnNodes(s) :
                         n.read /\ n.name = s.name.lexeme}
           IN  [c1 EXCEPT !.viols =
                   @ \cup {[line |-> n.line, kind |->
                              IF Len(ctx.declared) > 1 THEN "own"
                              ELSE "ownTop"] : n \in own}]
      [] OTHER -> LexNodes(ctx, OwnNodes(s))

Lex(stmts, top) ==
    LexStmts([declared |-> <<{}>>, inFun |-> FALSE, top |-> top,
              entries |-> {}, viols |-> {}], stmts, 1)

-----------------------------------------------------------------------------
(* Properties                                                              *)

\* the parser accepted the source and resolve has returned
Resolved == pc # "start" /\ parseErrors = <<>>

\* the error list resolve returned (empty when it returned Ok)
ResolverErrors ==
    IF pc = "done" /\ parseErrors = <<>> /\ errors = <<>>
         /\ result[1].k = "Err"
    THEN result[1].errors ELSE <<>>

ResolvedOk == Resolved /\ ResolverErrors = <<>>

Range(seq) == {seq[i] : i \in 1..Len(seq)}

\* the lines printed by top-level statement k
TextsOf(k) ==
    LET mine == SelectSeq(out, LAMBDA o : o.top = k)
    IN  [i \in 1..Len(mine) |-> mine[i].text]

\* fragment frag stands in the source from top-level statement k on
FragAt(frag, k) ==
    /\ k + Len(frag) - 1 <= Len(source)
    /\ \E p \in 1..(MaxFrags + 1) :
         SubSeq(source, k, k + Len(frag) - 1) = PlaceStmts(frag, p)

\* top-level statements k .. k + n - 1 have been executed
Executed(k, n) == pc \in {"loop", "done"} /\ idx >= k + n

FunIndex(fn) ==
    CHOOSE i \in 1..Len(log) : log[i].ev = "fun" /\ log[i].fn = fn

\* C1: a read made by a function body of a name that was bound, when the
\* function was declared, only outside the function finds the binding it
\* had at the declaration, in every call, whatever was declared since.
C1_ReadsDeclarationTimeBinding ==
    \A i \in 1..Len(log) :
        (log[i].ev = "read" /\ log[i].call # <<>>) =>
            LET c == Last(log[i].call)
                at == log[FunIndex(c.fn)].at[log[i].name]
                outside == \/ log[i].found = None
                           \/ log[i].found[1] < c.frame
            IN  (at # None /\ outside) => log[i].found = at

\* C2: the counter of makeCounter returns 1, 2, 3 on three successive
\* calls, and a function reads the value that other code assigned to a
\* captured variable after the function value was created.
C2_ClosureIsShared ==
    \A k \in 1..Len(source) :
        /\ (FragAt(FragCounter, k) /\ Executed(k, 5)) =>
              /\ TextsOf(k + 2) = <<"1">>
              /\ TextsOf(k + 3) = <<"2">>
              /\ TextsOf(k + 4) = <<"3">>
        /\ (FragAt(FragCapture, k) /\ Executed(k, 1)) =>
              TextsOf(k) = <<"5">>

C2_CounterCalledThrice ==
    \E k \in 1..Len(source) :
        /\ FragAt(FragCounter, k) /\ Executed(k, 5)
        /\ TextsOf(k + 4) = <<"3">>
        /\ \E i \in 1..Len(log) :
             /\ log[i].ev = "write" /\ log[i].top = k + 4
             /\ log[i].call # <<>> /\ log[i].found # None
             /\ log[i].found[1] < Last(log[i].call).frame

C4_HopFrameBindsName ==
    \A i \in 1..Len(log) :
        (log[i].ev \in {"read", "write"} /\ log[i].hops # None) =>
            log[i].bound

\* C5: a return executed inside a call is followed at once by the end of
\* that call, whose value is the returned value; a call that ends with a
\* value and without a return yields nil.
C5_ReturnEndsCall ==
    \A i \in 1..Len(log) :
        /\ (log[i].ev = "return" /\ log[i].call # <<>>) =>
              /\ i < Len(log)
              /\ log[i + 1].ev = "callret"
              /\ log[i + 1].call = log[i].call
              /\ log[i + 1].res = OkSome(log[i].v)
        /\ (log[i].ev = "callret" /\ log[i].res.k = "Some"
              /\ ~(i > 1 /\ log[i - 1].ev = "return"
                         /\ log[i - 1].call = log[i].call)) =>
              log[i].res.v = Nil

C5_ReturnIssuedInLoop ==
    \E i \in 1..Len(log) :
        /\ log[i].ev = "return" /\ log[i].v = String("one")
        /\ log[i - 1].ev = "stmt" /\ log[i - 1].k = "Return"
        /\ \E j \in 1..Len(log) :
             /\ j > i + 1 /\ log[j].ev = "callret"
             /\ log[j].res = OkSome(Nil)
             /\ log[j - 1].ev # "return"

\* C6: when the parser or the resolver reports an error, no statement is
\* executed, nothing is printed, no frame is created or changed, and the
\* errors are what is returned.
StaticErrors ==
    \/ parseErrors # <<>>
    \/ resolve(ResolverState(<<>>, None, EmptyMap), source).errors # <<>>

C7_RunStopsAtFirstError ==
    \A i, j \in 1..Len(log) :
        (i < j /\ log[i].ev = "err") => log[j].top = log[i].top

\* C7 amended: the rest of the failing top-level statement is not
\* executed; run goes on with the next top-level statements, executes
\* every one of them and returns all the errors raised.
FailedTops == {k \in 1..Len(source) :
                 \E i \in 1..Len(log) : log[i].ev = "err" /\ log[i].top = k}

C7_RunContinuesAfterError ==
    /\ \A i, j \in 1..Len(log) :
         (i < j /\ log[i].ev = "err" /\ log[j].top = log[i].top) =>
             log[j].ev = "callret" /\ log[j].res.k = "Err"
    /\ (pc = "done" /\ ResolvedOk) =>
         /\ \A k \in 1..Len(source) :
              \E i \in 1..Len(log) : log[i].ev = "stmt" /\ log[i].top = k
         /\ Len(errors) = Cardinality(FailedTops)
         /\ result[1] = IF errors = <<>> THEN [k |-> "Ok"]
                        ELSE [k |-> "Err", errors |-> errors]

C7_StatementRunsAfterFailure ==
    /\ pc = "done"
    /\ \E i, j \in 1..Len(log) :
         /\ i < j /\ log[i].ev = "err" /\ log[j].ev = "stmt"
         /\ log[j].top > log[i].top
    /\ \E k \in FailedTops : source[k].k = "Block"

KindMsg(kind) ==
    CASE kind = "dup" -> MsgAlreadyDeclared
      [] kind = "ret" -> MsgTopLevelReturn
      [] OTHER -> MsgOwnInitializer

\* C8: resolve returns an error for every violation of the program.
C8_EveryViolationReported ==
    Resolved =>
        Range(ResolverErrors) =
            {[line |-> v.line, msg |-> KindMsg(v.kind)] :
               v \in Lex(source, TRUE).viols}

\* C9: "Cannot return from top-level code." is reported for a return
\* statement iff the statement is not inside a function body.
C9_TopLevelReturnsReported ==
    Resolved =>
        {e.line : e \in {x \in Range(ResolverErrors) :
                           x.msg = "Cannot return from top-level code."}}
          = {v.line : v \in {x \in Lex(source, TRUE).viols :
                               x.kind = "ret"}}

\* C10: "Cannot read local variable in its own initializer." is reported
\* for every var in a block or function scope whose initializer reads the
\* variable, and for no other read.
C10_OwnInitializerReported ==
    Resolved =>
        LET reported ==
              {e.line : e \in {x \in Range(ResolverErrors) : x.msg =
                 "Cannot read local variable in its own initializer."}}
            viols == Lex(source, TRUE).viols
        IN  /\ \A v \in viols : v.kind = "own" => v.line \in reported
            /\ \A l \in reported :
                 \E v \in viols : v.kind \in {"own", "ownTop"} /\ v.line = l

-----------------------------------------------------------------------------
(* The Environment types (EnvSpec)                                         *)

Min(S) == CHOOSE x \in S : \A y \in S : x <= y

\* the frames of the chain that starts at frame f, innermost first
RECURSIVE Chain(_, _)

Chain(h, f) ==
    IF h[f].enclosing = None THEN <<f>>
    ELSE <<f>> \o Chain(h, h[f].enclosing[1])

\* the bindings a lookup from the current position walks through,
\* innermost frame first
Walked ==
    IF pc = "v2"
    THEN [i \in 1..Len(Chain(heap, environment)) |->
            heap[Chain(heap, environment)[i]].values]
    ELSE IF Env_in_bounds(env_rs, env_rs.current_scope)
         THEN [i \in 1..(env_rs.current_scope + 1) |->
                 env_rs.scopes[env_rs.current_scope + 2 - i]]
         ELSE <<>>

\* the position of the current frame
Position == IF pc = "v2" THEN environment ELSE env_rs.current_scope

\* get(name) from the current frame
GetNow(name) ==
    IF pc = "v2" THEN env_get(heap, environment, name)
    ELSE Env_get(env_rs, name)

\* get(name) from the frame that encloses frame f (f counted from 1)
GetOutside(f, name) ==
    IF pc = "v2" THEN env_get(heap, heap[f].enclosing[1], name)
    ELSE Env_get([env_rs EXCEPT !.current_scope = f - 2], name)

LastCall == result[1]

\* C11: assign(name, v), called on an Environment whose current frame
\* exists, overwrites the binding of name in the nearest frame of the chain
\* that binds it and changes nothing else; when no frame binds name it
\* returns "Undefined variable 'name'." and changes nothing.
C11_AssignOverwritesNearest ==
    [][(result' # None /\ result'[1].op = "assign" /\ Len(Walked) > 0) =>
         LET name == result'[1].name
             binders == {i \in 1..Len(Walked) : name \in DOMAIN Walked[i]}
         IN  /\ Position' = Position
             /\ IF binders = {}
                THEN /\ result'[1].err =
                          Some("Undefined variable '" \o name \o "'.")
                     /\ Walked' = Walked
                ELSE /\ result'[1].err = None
                     /\ Walked' =
                          [Walked EXCEPT ![Min(binders)] =
                             [@ EXCEPT ![name] = result'[1].value]]]_vars

C11_AssignReachedEnclosingFrame ==
    /\ result # None /\ LastCall.op = "assign" /\ LastCall.err = None
    /\ Len(Walked) = 3
    /\ LastCall.name \notin DOMAIN Walked[1]
    /\ LastCall.name \in DOMAIN Walked[2]
    /\ Walked[2][LastCall.name] = LastCall.value
    /\ LastCall.name \in DOMAIN Walked[3]
    /\ Walked[3][LastCall.name] # LastCall.value

\* C12: after define(name, v), get(name) from the frame returns v; a
\* binding of name in an enclosing frame is not modified while the inner
\* one shadows it, and once the inner frame is left get(name) returns what
\* it returned outside the frame before the define.
C12_DefineShadowsWithoutModifying ==
    /\ (result # None /\ LastCall.op = "define" /\ Len(Walked) > 0) =>
          GetNow(LastCall.name) = Some(LastCall.value)
    /\ \A f \in 2..Len(log) : \A n \in DOMAIN log[f] :
          GetOutside(f, n) = log[f][n]
    /\ (result # None /\ LastCall.op = "leave" /\ LastCall.left # None
          /\ Len(Walked) > 0) =>
          \A n \in DOMAIN LastCall.left[1].seen :
              GetNow(n) = LastCall.left[1].seen[n]

C12_ShadowingFrameLeft ==
    /\ result # None /\ LastCall.op = "leave" /\ LastCall.left # None
    /\ \E n \in DOMAIN LastCall.left[1].seen :
         /\ LastCall.left[1].seen[n] # None
         /\ LastCall.left[1].values[n] # LastCall.left[1].seen[n][1]
         /\ GetNow(n) = LastCall.left[1].seen[n]

-----------------------------------------------------------------------------
(* Operators and calls (ExprSpec)                                          *)

GlobalValues == heap[Globals].values

\* only nil and false are falsey
Falsey(v) == v = Nil \/ v = Boolean(FALSE)

\* the events of top-level statement k that read the node with ScopeId id
ReadsOf(k, id) ==
    {i \in 1..Len(log) :
        log[i].ev = "read" /\ log[i].top = k /\ log[i].scope_id = id}

\* top-level statement k is `var r = <variable> <op> <variable>;` with an
\* operator of the set ops, and has been executed
OperatorRun(k, kind, ops) ==
    /\ Executed(k, 1)
    /\ source[k].k = "Var"
    /\ source[k].initializer # None
    /\ source[k].initializer[1].k = kind
    /\ source[k].initializer[1].operator.token_type \in ops

\* C13: for `and`/`or` the right operand is evaluated exactly once when the
\* left operand does not decide the result and not at all otherwise, and
\* the result is the deciding operand's own value; only nil and false are
\* falsey.
C13_ShortCircuit ==
    \A k \in 1..Len(source) :
        OperatorRun(k, "Logical", LogicalOps) =>
            LET e == source[k].initializer[1]
                lv == GlobalValues[e.left.name.lexeme]
                rv == GlobalValues[e.right.name.lexeme]
                decided == IF e.operator.token_type = "Or" THEN ~Falsey(lv)
                           ELSE Falsey(lv)
            IN  /\ Cardinality(ReadsOf(k, e.left.scope_id)) = 1
                /\ Cardinality(ReadsOf(k, e.right.scope_id)) =
                       IF decided THEN 0 ELSE 1
                /\ "r" \in DOMAIN GlobalValues
                /\ GlobalValues["r"] = IF decided THEN lv ELSE rv

C13_ZeroDecidesOr ==
    \E k \in 1..Len(source) :
        /\ OperatorRun(k, "Logical", {"Or"})
        /\ GlobalValues[source[k].initializer[1].left.name.lexeme] = Number(0)
        /\ ReadsOf(k, source[k].initializer[1].right.scope_id) = {}
        /\ GlobalValues["r"] = Number(0)

\* top-level statement k is `var r = <name>(<k arguments>);` and has been
\* executed
CallRun(k) ==
    /\ Executed(k, 1)
    /\ source[k].k = "Var"
    /\ source[k].initializer # None
    /\ source[k].initializer[1].k = "Call"

\* the arity of the callee named in the call of statement k: the number of
\* parameters of the function declared under the name, 0 for clock
DeclaredArity(k) ==
    LET name == source[k].initializer[1].callee.name.lexeme
    IN  IF name = "clock" THEN 0
        ELSE Len(source[CHOOSE j \in 1..Len(source) :
                           source[j].k = "Fun"
                             /\ source[j].name.lexeme = name].parameters)

\* the error of top-level statement k, if it failed
ErrorsAt(line) == {errors[i] : i \in {j \in 1..Len(errors) :
                                        errors[j].line = line}}

\* C14: a call with k arguments succeeds iff the callee's arity is k;
\* otherwise it yields "Expected N arguments but got M." and the body of
\* the callee is not executed.
C14_ArityDecidesCall ==
    \A k \in 1..Len(source) :
        CallRun(k) =>
            LET c == source[k].initializer[1]
                given == Len(c.arguments)
                calls == {i \in 1..Len(log) :
                            log[i].ev = "call" /\ log[i].top = k}
                native == c.callee.name.lexeme = "clock"
            IN  IF DeclaredArity(k) = given
                THEN /\ errors = <<>>
                     /\ "r" \in DOMAIN GlobalValues
                     /\ GlobalValues["r"] = IF native THEN Number(now)
                                            ELSE Nil
                     /\ native \/ (Cardinality(calls) = 1
                                     /\ TextsOf(k) = <<"body">>)
                ELSE /\ errors =
                          <<RuntimeError(c.paren.line,
                              "Expected " \o ToString(DeclaredArity(k))
                                \o " arguments but got " \o ToString(given)
                                \o ".")>>
                     /\ "r" \notin DOMAIN GlobalValues
                     /\ calls = {}
                     /\ TextsOf(k) = <<>>

C14_TooManyArgumentsRefused ==
    \E k \in 1..Len(source) :
        /\ CallRun(k)
        /\ pc = "done"
        /\ DeclaredArity(k) = 1
        /\ Len(source[k].initializer[1].arguments) = 2
        /\ result[1] = [k |-> "Err", errors |->
                          <<RuntimeError(2, "Expected 1 arguments but got 2.")>>]
        /\ out = <<>>

\* C15: an arithmetic or comparison operator applied to operands that are
\* not both numbers (for `+`: neither both numbers nor both strings)
\* yields a runtime error carrying the operator's line, and the
\* interpreter is not aborted; a number plus a non-number yields "Right
\* operand must be a Number.".
C15_TypeErrorsAreValues ==
    \A k \in 1..Len(source) :
        (/\ parseErrors = <<>> /\ pc # "start" /\ idx > k
         /\ source[k].k = "Var" /\ source[k].initializer # None
         /\ source[k].initializer[1].k = "Binary"
         /\ source[k].initializer[1].operator.token_type
               \in BinaryOps \ {"EqualEqual", "BangEqual"}) =>
            LET e == source[k].initializer[1]
                lv == GlobalValues[e.left.name.lexeme]
                rv == GlobalValues[e.right.name.lexeme]
                numbers == lv.t = "Number" /\ rv.t = "Number"
                strings == lv.t = "String" /\ rv.t = "String"
                illTyped == IF e.operator.token_type = "Plus"
                            THEN ~numbers /\ ~strings ELSE ~numbers
            IN  illTyped =>
                  /\ pc # "aborted"
                  /\ \E i \in 1..Len(errors) :
                       /\ errors[i].line = e.operator.line
                       /\ (lv.t = "Number" =>
                             errors[i].msg = "Right operand must be a Number.")

-----------------------------------------------------------------------------
(* The parser: error recovery, for statements, the cap on arguments *)

\* a run of parse is under way or over
Parsing == pc = "parse"

\* a statement boundary: the Eof token, the token behind a semicolon, or a
\* keyword that starts a declaration or a statement
Boundary(tokens, q) ==
    \/ tokens[q].token_type = "Eof"
    \/ tokens[q - 1].token_type = "Semicolon"
    \/ tokens[q].token_type \in
          {"Class", "Fun", "Var", "For", "If", "While", "Print", "Return"}

\* the iterations of parse, among the first i, that met an error
Recoveries(i) == {j \in 1..i : log[j].ev = "Err"}

\* every iteration that met an error pushed one error, made of the token
\* the error is at
ErrorsRecorded ==
    /\ Len(parser.errors) = Cardinality(Recoveries(Len(log)))
    /\ \A i \in Recoveries(Len(log)) :
          LET error == parser.errors[Cardinality(Recoveries(i))]
              token == parser.tokens[log[i].at]
          IN  error.lexeme = token.lexeme /\ error.line = token.line

\* parse returns the statements when it recorded no error, else the errors
ResultIsAllOrNothing ==
    (parser.result # None /\ parser.result[1].k # "Panic") =>
        /\ parser.result[1].k = "Ok" <=> parser.errors = <<>>
        /\ parser.result[1].k = "Ok" =>
              parser.result[1].statements = parser.statements
        /\ parser.result[1].k = "Err" =>
              parser.result[1].errors = parser.errors

\* parsing went on at the first boundary behind the token of the error
ResumedBehind(e) ==
    /\ e.to > e.at
    /\ Boundary(parser.tokens, e.to)
    /\ \A q \in (e.at + 1)..(e.to - 1) : ~Boundary(parser.tokens, q)

\* C16 (as stated): after a parse error at position p the parser records one
\* error and resumes at the first position q > p that is a statement
\* boundary; parse returns Ok with every statement iff it recorded no error,
\* else Err with every error.
C16_ResumesBehindErrorToken ==
    Parsing =>
        /\ ErrorsRecorded
        /\ ResultIsAllOrNothing
        /\ \A i \in Recoveries(Len(log)) : ResumedBehind(log[i])

\* C16 (amended): as above, except that an error at the Eof token leaves the
\* position on the Eof token (q = p), where the loop of parse ends.
C16_ResumesAtBoundary ==
    Parsing =>
        /\ ErrorsRecorded
        /\ ResultIsAllOrNothing
        /\ \A i \in Recoveries(Len(log)) :
              IF parser.tokens[log[i].at].token_type = "Eof"
              THEN log[i].to = log[i].at
              ELSE ResumedBehind(log[i])

\* an error was skipped up to the token behind a semicolon, two tokens on,
\* the statement there was parsed, and parse returned the error
C16_StatementParsedAfterRecovery ==
    /\ Parsing
    /\ parser.result # None
    /\ parser.result[1].k = "Err"
    /\ \E i \in Recoveries(Len(log)) :
          /\ log[i].to = log[i].at + 2
          /\ parser.tokens[log[i].to - 1].token_type = "Semicolon"
          /\ \E j \in (i + 1)..Len(log) : log[j].ev = "Ok"

\* where the clauses and the body of for (init cond; inc) body start
CondStart(init) == 3 + Len(InitTypes(init))

IncStart(init, cond) == CondStart(init) + Len(CondTypes(cond)) + 1

BodyStart(init, cond, inc) == IncStart(init, cond) + Len(IncTypes(inc)) + 1

\* { init; while (cond) { body; inc; } } made of the statement and the
\* expressions the clauses parse to on their own; an omitted condition is
\* the literal true, and no block is put around a single statement
Desugared(tokens, init, cond, inc) ==
    LET body == statement(tokens, BodyStart(init, cond, inc)).node
        repeated == IF inc = "omitted" THEN body
                    ELSE BlockStmt(<<body,
                            ExprStmt(expression(tokens,
                                                IncStart(init, cond)).node)>>)
        loop == WhileStmt(IF cond = "omitted" THEN Literal(Boolean(TRUE))
                          ELSE expression(tokens, CondStart(init)).node,
                          repeated)
    IN  CASE init = "omitted" -> loop
          [] init = "var" -> BlockStmt(<<declaration(tokens, 3).node, loop>>)
          [] init = "expression" ->
                BlockStmt(<<expression_statement(tokens, 3).node, loop>>)

\* parse has returned for the for statement with these clauses
ForParsed(init, cond, inc) ==
    /\ Parsing
    /\ parser.result # None
    /\ Len(parser.tokens) = Len(ForTypes(init, cond, inc))
    /\ parser.tokens = TokensOf(ForTypes(init, cond, inc))

\* C17: a for statement, whichever of its clauses are present (the
\* initializer a var declaration or an expression statement), parses to the
\* tree of { init; while (cond) { body; inc; } }.
C17_ForDesugars ==
    \A init \in Initializers, cond \in Clauses, inc \in Clauses :
        ForParsed(init, cond, inc) =>
            /\ parser.result[1].k = "Ok"
            /\ parser.result[1].statements =
                  <<Desugared(parser.tokens, init, cond, inc)>>

\* parse has returned for these tokens
Returned(tokens) ==
    /\ Parsing
    /\ parser.result # None
    /\ Len(parser.tokens) = Len(tokens)
    /\ parser.tokens = tokens

\* parse returned one error, with this message, at the token at position p
OneErrorAt(p, msg) ==
    /\ parser.result[1].k = "Err"
    /\ parser.result[1].errors =
          <<ParseError(parser.tokens[p].line, parser.tokens[p].lexeme, msg)>>
    /\ log[1].ev = "Err"
    /\ log[1].at = p

\* C18: a call with at most 8 arguments and a function declaration with at
\* most 8 parameters parse; with 9 or more, parse reports an error at the
\* 9th argument or parameter.
C18_NinthIsRefused ==
    \A n \in 0..MaxCount :
        /\ Returned(TokensOf(CallTypes(n))) =>
              IF n <= 8
              THEN /\ parser.result[1].k = "Ok"
                   /\ Len(parser.result[1].statements) = 1
                   /\ Len(parser.result[1].statements[1]
                            .expression.arguments) = n
              ELSE OneErrorAt(2 + 2 * 9 - 1,
                              "Cannot have more than 8 arguments.")
        /\ Returned(TokensOf(FunTypes(n))) =>
              IF n <= 8
              THEN /\ parser.result[1].k = "Ok"
                   /\ Len(parser.result[1].statements) = 1
                   /\ Len(parser.result[1].statements[1].parameters) = n
              ELSE OneErrorAt(3 + 2 * 9 - 1,
                              "Cannot have more than 8 arguments.")

\* parse refused a call with nine arguments
C18_NineArgumentsRefused ==
    /\ Returned(TokensOf(CallTypes(9)))
    /\ parser.result[1].k = "Err"

-----------------------------------------------------------------------------
(* The scanner: what scan_tokens yields.                                   *)

Scanning == pc = "scan"

\* scan_tokens has run to its end, by returning or by a panic
ScanEnded == Scanning /\ scanner.result # None

\* scan_tokens returned a value
ScanReturned == ScanEnded /\ scanner.result[1].k # "Panic"

\* the characters (counted from 1) that a pass of the loop consumed
Consumed == {i \in 1..Len(scanner.source) :
                \E j \in 1..Len(log) : log[j].start < i /\ i <= log[j].end}

\* the positions of the Eof tokens
EofTokens ==
    {i \in 1..Len(scanner.tokens) : scanner.tokens[i].token_type = "Eof"}

Blanks == {" ", "\n", "\r", "\t"}

RECURSIVE Unblanked(_)

\* the characters that are no blanks, in source order
Unblanked(chars) ==
    IF chars = <<>> THEN ""
    ELSE IF chars[1] \in Blanks THEN Unblanked(Tail(chars))
    ELSE chars[1] \o Unblanked(Tail(chars))

RECURSIVE Lexemes(_)

\* the lexemes of the tokens, one behind the other
Lexemes(tokens) ==
    IF tokens = <<>> THEN "" ELSE tokens[1].lexeme \o Lexemes(Tail(tokens))

\* C19: for every source, the empty one and one without a trailing newline
\* included, scan_tokens returns, its tokens end with exactly one Eof token,
\* every character up to the last was consumed by the loop, and when there
\* is neither an error nor a string the lexemes of the tokens are, in source
\* order, the characters of the source that are no blanks.
C19_EveryLexemeHasItsToken ==
    ScanEnded =>
        /\ scanner.result[1].k # "Panic"
        /\ EofTokens = {Len(scanner.tokens)}
        /\ Consumed = 1..Len(scanner.source)
        /\ (scanner.result[1].k = "Ok"
               /\ \A i \in 1..Len(scanner.source) : scanner.source[i] # "\"")
           => Lexemes(scanner.tokens) = Unblanked(scanner.source)

\* the part of C19 the code keeps: a scan that returns ends its tokens with
\* the only Eof token
ScanEndsWithOneEof == ScanReturned => EofTokens = {Len(scanner.tokens)}

\* a source that is not empty never makes scan_tokens panic
ScanPanicsOnEmptySourceOnly ==
    (ScanEnded /\ ~ScanReturned) => Len(scanner.source) = 0

\* the last character of a source is never consumed
LastCharacterIsLeft ==
    ScanReturned => Len(scanner.source) \notin Consumed

RECURSIVE Count(_, _)

\* the tokens ("tokens") or errors ("errors") of the first j passes
Count(field, j) ==
    IF j = 0 THEN 0 ELSE log[j][field] + Count(field, j - 1)

\* the passes of the loop that began at a `"`
StringPasses ==
    {j \in 1..Len(log) :
        /\ log[j].start < Len(scanner.source)
        /\ scanner.source[log[j].start + 1] = "\""}

\* the quotes (counted from 1) behind the one a pass began at
Closing(j) ==
    {i \in (log[j].start + 2)..Len(scanner.source) :
        scanner.source[i] = "\""}

FirstClosing(j) == CHOOSE i \in Closing(j) : \A c \in Closing(j) : i <= c

\* the pass reported the unterminated-string error and made no token
Unterminated(j) ==
    /\ log[j].errors = 1
    /\ log[j].tokens = 0
    /\ scanner.errors[Count("errors", j)].msg = "Unterminated string."

\* the pass made the String token of the text between the quotes
Terminated(j) ==
    /\ log[j].errors = 0
    /\ log[j].tokens = 1
    /\ log[j].end = FirstClosing(j)
    /\ scanner.tokens[Count("tokens", j)].token_type = "String"
    /\ scanner.tokens[Count("tokens", j)].literal =
          Some(String(Join(SubSeq(scanner.source, log[j].start + 2,
                                  FirstClosing(j) - 1))))

\* the passes that reported an unexpected character
UnexpectedPasses ==
    {j \in 1..Len(log) :
        /\ log[j].errors = 1
        /\ scanner.errors[Count("errors", j)].msg = "Unexpected character."}

\* the scan goes on behind an unexpected character that is not the last
\* character but one
UnexpectedCharacterIsPassed ==
    ScanReturned =>
        \A j \in UnexpectedPasses :
            /\ log[j].end = log[j].start + 1
            /\ log[j].end < Len(scanner.source) - 1 =>
                  /\ j < Len(log)
                  /\ log[j + 1].start = log[j].end

\* C20: a string literal gives the unterminated-string error if and only if
\* no closing quote follows before the end of the input; otherwise, also
\* when the closing quote is the last character of the source, it gives the
\* String token of the text between the quotes; and the scan goes on behind
\* an unexpected character.
C20_StringEndsAtItsQuote ==
    ScanReturned =>
        /\ \A j \in StringPasses :
              IF Closing(j) = {} THEN Unterminated(j) ELSE Terminated(j)
        /\ \A j \in UnexpectedPasses :
              log[j].end < Len(scanner.source) - 1 => j < Len(log)

\* the closing quote that is the last character is the only one the
\* scanner misses
StringEndsAtItsQuoteBeforeTheLast ==
    ScanReturned =>
        \A j \in StringPasses :
            IF Closing(j) \in {{}, {Len(scanner.source)}}
            THEN Unterminated(j) ELSE Terminated(j)

-----------------------------------------------------------------------------
(* Nodes without a resolver entry, the resolver's own state, and the       *)
(* positions of the parser                                                  *)

\* the reads and writes made through a node that has no entry in locals
UnresolvedAccesses ==
    {i \in 1..Len(log) :
        log[i].ev \in {"read", "write"} /\ log[i].hops = None}

\* C22: a Variable or Assign node without a resolver entry reads or writes
\* the globals frame only: the binding it finds, if any, is never one of a
\* frame other than the globals.
C22_UnresolvedNodesUseGlobals ==
    \A i \in UnresolvedAccesses :
        log[i].found \in {None, Some(Globals)}

\* a node without an entry is looked up from the current frame outwards:
\* it finds the nearest binding of the chain
UnresolvedNodesWalkTheChain ==
    \A i \in UnresolvedAccesses :
        /\ log[i].target = Some(log[i].env)
        /\ log[i].found # None => log[i].found[1] <= log[i].env

\* C27: when resolve has returned, with or without errors, the scope stack
\* of the resolver is as deep as before the call (empty) and current_fun is
\* None.
C27_ResolverStateRestored ==
    Resolved => scopes = <<>> /\ current_fun = None

\* a resolve that returns Ok leaves the resolver as C27 says
ResolvedOkRestores ==
    ResolvedOk => scopes = <<>> /\ current_fun = None

\* C28: on a token vector that ends with the Eof token parse never reads a
\* token beyond the vector: it returns Ok or Err and never aborts.
C28_ParserStaysInsideTokens ==
    (Parsing /\ parser.result # None) => parser.result[1] # ParseAborted

\* the iterations of parse that found a declaration or an error
Iterations == {i \in 1..Len(log) : log[i].ev # "Eof"}

\* C29: every iteration of the loop of parse leaves the position strictly
\* greater than it met it, and parse ends by reaching the Eof token.
C29_EveryIterationAdvancesToEof ==
    Parsing =>
        /\ \A i \in Iterations : log[i].to > log[i].from
        /\ parser.result # None =>
              /\ log[Len(log)].ev = "Eof"
              /\ parser.tokens[parser.pos].token_type = "Eof"

\* the iterations that parsed a declaration or recovered from an error
\* advance, so that parse ends within as many iterations as there are tokens
ParsedOrRecoveredAdvances ==
    Parsing =>
        /\ \A i \in Iterations :
              log[i].ev \in {"Ok", "Err"} => log[i].to > log[i].from
        /\ Len(log) <= Len(parser.tokens)

-----------------------------------------------------------------------------
(* The process (MainSpec)                                                  *)

Exited == pc = "exited"

\* run_file handed the file to run, and run returned
FileRun == Exited /\ process.args = 2 /\ process.file = "read"

\* C21: with one file argument the program exits with status 0 when the
\* file runs without error, 65 when the parser or the resolver reports
\* errors and 70 when a runtime error occurs; with more than one argument
\* it prints the usage and exits with a status other than 0.
C21_ExitStatusTellsTheError ==
    /\ FileRun =>
          process.status =
              Some(IF StaticErrors THEN 65
                   ELSE IF result[1].k = "Err" THEN 70 ELSE 0)
    /\ (Exited /\ process.args > 2) =>
          /\ out = <<[top |-> 0, text |-> "Usage: rlox [script]"]>>
          /\ process.status # Some(0)

\* what main does: every Err of run exits with 70, an Ok of run and the
\* usage with 0, and 65 is the status of a file that cannot be read
ExitStatusOfMain ==
    Exited =>
        process.status =
            Some(IF process.args > 2 THEN 0
                 ELSE IF process.file # "read" THEN 65
                 ELSE IF result[1].k = "Err" THEN 70 ELSE 0)

RECURSIVE run_loop(_, _, _)

\* the loop of Interpreter::run as a function of the interpreter:
\* acc = [st |-> interpreter, errors |-> Vec]
run_loop(acc, stmts, i) ==
    IF i > Len(stmts) THEN acc
    ELSE run_loop(
            Only([r \in {visit_stmt([acc.st EXCEPT !.top = i], stmts[i])} |->
                    [st |-> r.st,
                     errors |-> IF Unwinds(r.res)
                                THEN Append(acc.errors, r.res) ELSE acc.errors]]),
            stmts, i + 1)

\* Interpreter::new().run(stmts): one run call on a fresh interpreter
OneRun(stmts) ==
    Only([res \in {resolve(ResolverState(<<>>, None, EmptyMap), stmts)} |->
        IF Len(res.errors) > 0 THEN [k |-> "Err"]
        ELSE Only([acc \in {run_loop(
                      [st |-> [heap |-> Interpreter_new_heap,
                               environment |-> Globals, next_id |-> 1,
                               out |-> <<>>, locals |-> res.r.locals,
                               now |-> now, top |-> 1, calls |-> <<>>,
                               log |-> <<>>],
                       errors |-> <<>>], stmts, 1)} |->
                 IF Len(acc.errors) > 0 THEN [k |-> "Err"]
                 ELSE [k |-> "Ok", st |-> acc.st]])])

RECURSIVE Joined(_, _)

\* the lines from the p-th on as one statement list
Joined(lines, p) ==
    IF p > Len(lines) THEN <<>> ELSE lines[p] \o Joined(lines, p + 1)

Texts(printed) == [i \in 1..Len(printed) |-> printed[i].text]

\* every line typed at the prompt has been run, none reported an error
PromptRanAll ==
    /\ pc = "done"
    /\ process # <<>>
    /\ process.args < 2
    /\ process.next > Len(process.input)
    /\ ~process.failed
    /\ result[1].k = "Ok"

\* C30: statement lists run in successive run calls on one interpreter
\* print what they print, and leave the global bindings they leave, when
\* they are run as one list in one run call, whenever neither way reports
\* an error.
C30_SplitRunsAgree ==
    PromptRanAll =>
        Only([joint \in {OneRun(Joined(process.input, 1))} |->
            joint.k = "Ok" =>
                /\ Texts(out) = Texts(joint.st.out)
                /\ heap[Globals].values = joint.st.heap[Globals].values])

-----------------------------------------------------------------------------
(* get_at and assign_at (EnvSpec)                                          *)

\* the bindings of the chain of frames that starts at env, innermost first
FramesOf(h, env) ==
    [i \in 1..Len(Chain(h, env)) |-> h[Chain(h, env)[i]].values]

\* the frames of the walk, counted from 1 at the current frame, that lie
\* at least `distance` steps out and bind name
BindersFrom(distance, name) ==
    {i \in 1..Len(FramesOf(heap, environment)) :
        i > distance /\ name \in DOMAIN FramesOf(heap, environment)[i]}

\* C25: get_at(name, h) returns the binding of the nearest frame, among
\* those h or more steps out, that binds name (what get returns from the
\* frame h steps out), and None when there is none; assign_at(name, v, h)
\* overwrites that binding and no other, and changes nothing when there is
\* none; neither reads or writes a frame fewer than h steps out, and with
\* h = 0 they are get and assign.
C25_DistanceSkipsFrames ==
    [][(pc = "v2" /\ result' # None) =>
         LET name == result'[1].name
             h == result'[1].distance
             binders == BindersFrom(h, name)
             frames == FramesOf(heap, environment)
         IN  /\ result'[1].op = "get_at" =>
                  /\ result'[1].got =
                        IF binders = {} THEN None
                        ELSE Some(frames[Min(binders)][name])
                  /\ h = 0 => result'[1].got = env_get(heap, environment, name)
                  /\ FramesOf(heap', environment') = frames
             /\ result'[1].op = "assign_at" =>
                  /\ environment' = environment
                  /\ (result'[1].err = None) <=> (binders # {})
                  /\ FramesOf(heap', environment') =
                        IF binders = {} THEN frames
                        ELSE [frames EXCEPT ![Min(binders)] =
                                 [@ EXCEPT ![name] = result'[1].value]]
                  /\ h = 0 =>
                        /\ heap' = env_assign(heap, environment, name,
                                              result'[1].value).h
                        /\ result'[1].err =
                              env_assign(heap, environment, name,
                                         result'[1].value).err]_vars

\* get_at passed over a nearer binding of the name and returned an outer
\* one
C25_NearerBindingSkipped ==
    /\ pc = "at"
    /\ result # None /\ LastCall.op = "get_at"
    /\ LastCall.distance = 2
    /\ Len(FramesOf(heap, environment)) = 3
    /\ LastCall.name \in DOMAIN FramesOf(heap, environment)[1]
    /\ LastCall.name \in DOMAIN FramesOf(heap, environment)[3]
    /\ FramesOf(heap, environment)[1][LastCall.name]
          # FramesOf(heap, environment)[3][LastCall.name]
    /\ LastCall.got = Some(FramesOf(heap, environment)[3][LastCall.name])

-----------------------------------------------------------------------------
(* Frames are left as they were entered (Spec)                             *)

\* the ways a block or a call ends that are not a panic
Finished == {"None", "Some", "Err"}

\* the "call" event of the invocation a "callret" event at j ends
CallEventOf(j) ==
    CHOOSE i \in 1..j :
        /\ log[i].ev = "call"
        /\ log[i].frame = Last(log[j].call).frame

\* C23: when a block or a call of a user function has finished, by running
\* to its end, by a return signal or by a runtime error, the current
\* environment is the one that was current before it began; between the
\* top-level statements of a run and after it the current environment is
\* the globals.
C23_EnvironmentRestored ==
    /\ \A i \in 1..Len(log) :
          (log[i].ev = "stmt" /\ log[i].k = "Block" /\ log[i].left # None
             /\ log[i].left[1].res \in Finished) =>
              log[i].left[1].env = log[i].env
    /\ \A j \in 1..Len(log) :
          (log[j].ev = "callret" /\ log[j].res.k \in Finished) =>
              /\ \E i \in 1..j : /\ log[i].ev = "call"
                                 /\ log[i].frame = Last(log[j].call).frame
              /\ log[j].env = log[CallEventOf(j)].caller
    /\ pc \in {"loop", "done"} => environment = Globals

\* a run has ended in which a block inside a call was left by a return
\* signal and a block was left by a runtime error, each entered from a frame
\* other than the one it made
C23_BlocksLeftEarly ==
    /\ pc = "done"
    /\ \E i \in 1..Len(log) :
         /\ log[i].ev = "stmt" /\ log[i].k = "Block"
         /\ log[i].call # <<>>
         /\ log[i].left # None /\ log[i].left[1].res = "Some"
         /\ log[i].env # Globals
    /\ \E i \in 1..Len(log) :
         /\ log[i].ev = "stmt" /\ log[i].k = "Block"
         /\ log[i].left # None /\ log[i].left[1].res = "Err"
    /\ \E j \in 1..Len(log) :
         /\ log[j].ev = "callret" /\ log[j].res.k = "Err"
         /\ log[j].env # Globals

-----------------------------------------------------------------------------
(* The order of evaluation in a call (OrderSpec)                           *)

\* the first event of top-level statement k
FirstEvent(k) == Min({i \in 1..Len(log) : log[i].top = k})

\* the names a call expression evaluates: the callee, then the arguments
Evaluated(c) ==
    <<c.callee>> \o c.arguments

\* C26: a call evaluates the callee first and then the arguments from left
\* to right, each once; when the callee or an argument fails, nothing after
\* it is evaluated and nothing is called; whether the callee can be called
\* and whether the number of arguments is its arity is looked at only when
\* all of them have been evaluated.
C26_CalleeThenArgumentsInOrder ==
    \A k \in 1..Len(source) :
        CallRun(k) =>
            LET c == source[k].initializer[1]
                nodes == Evaluated(c)
                undefined == {j \in 1..Len(nodes) :
                                 nodes[j].name.lexeme = "c"}
                last == IF undefined = {} THEN Len(nodes)
                        ELSE Min(undefined)
                s == FirstEvent(k)
                reads == {i \in 1..Len(log) :
                             log[i].ev = "read" /\ log[i].top = k}
                errs == {i \in 1..Len(log) :
                            log[i].ev = "err" /\ log[i].top = k}
                calls == {i \in 1..Len(log) :
                             log[i].ev = "call" /\ log[i].top = k}
                callee == c.callee.name.lexeme
            IN  /\ log[s].ev = "stmt"
                /\ reads = (s + 1)..(s + last)
                /\ \A j \in 1..last :
                      /\ log[s + j].name = nodes[j].name.lexeme
                      /\ log[s + j].scope_id = nodes[j].scope_id
                /\ IF undefined # {}
                   THEN /\ errs = {s + last + 1}
                        /\ log[s + last + 1].msg = MsgUndefinedVariable("c")
                        /\ calls = {}
                        /\ TextsOf(k) = <<>>
                   ELSE IF callee \notin {"g", "clock"}
                   THEN /\ errs = {s + last + 1}
                        /\ log[s + last + 1].msg =
                              "Can only call functions and classes."
                        /\ calls = {}
                   ELSE IF DeclaredArity(k) # Len(c.arguments)
                   THEN /\ errs = {s + last + 1}
                        /\ log[s + last + 1].msg =
                              "Expected " \o ToString(DeclaredArity(k))
                                \o " arguments but got "
                                \o ToString(Len(c.arguments)) \o "."
                        /\ calls = {}
                   ELSE /\ errs = {}
                        /\ callee = "g" => calls = {s + last + 1}

\* a call of a value that cannot be called, with a wrong number of
\* arguments whose second one is undefined, ended with the error of the
\* undefined variable after the callee and both arguments were read
C26_SecondArgumentFailed ==
    \E k \in 1..Len(source) :
        /\ CallRun(k)
        /\ pc = "done"
        /\ source[k].initializer[1].callee.name.lexeme = "a"
        /\ Len(source[k].initializer[1].arguments) = 2
        /\ source[k].initializer[1].arguments[1].name.lexeme = "b"
        /\ source[k].initializer[1].arguments[2].name.lexeme = "c"
        /\ Len(source[3].parameters) = 0
        /\ Cardinality({i \in 1..Len(log) :
                           log[i].ev = "read" /\ log[i].top = k}) = 3
        /\ result[1] = [k |-> "Err", errors |->
                          <<RuntimeError(OrderLine,
                                         MsgUndefinedVariable("c"))>>]

-----------------------------------------------------------------------------
(* The frame of a call (CallSpec)                                          *)

\* the frames event j names: the environment it happened in, the frame a
\* call made, the closure a declaration captured
FramesNamed(j) ==
    CASE log[j].ev \in {"stmt", "read", "write"} -> {log[j].env}
      [] log[j].ev = "call" -> {log[j].frame, log[j].caller}
      [] log[j].ev = "fun" -> {log[j].closure}
      [] OTHER -> {}

\* the parameters of the function declared with id fn
ParametersOf(fn) ==
    LET f == CHOOSE v \in UNION {{heap[e].values[n] :
                                     n \in DOMAIN heap[e].values} :
                                   e \in 1..Len(heap)} :
                 v.t = "Function" /\ v.id = fn
    IN  f.declaration.parameters

\* the run of the whole source has ended
Ended == pc = "done" /\ idx > Len(source)

\* C24: every call of a user function runs in a frame made for it: no
\* earlier event names the frame, it encloses the environment in which the
\* function was declared, whatever environment the call is made from, and
\* it binds the parameters to the arguments and nothing else.  A name
\* local to the caller is not found by the body, and the frames of nested
\* and of successive calls keep their own bindings.
C24_CallRunsInFreshFrame ==
    /\ \A i \in 1..Len(log) :
          log[i].ev = "call" =>
              /\ \A j \in 1..(i - 1) : log[i].frame \notin FramesNamed(j)
              /\ log[i].frame # log[i].caller
              /\ \E d \in 1..(i - 1) :
                    /\ log[d].ev = "fun" /\ log[d].fn = log[i].fn
                    /\ heap[log[i].frame].enclosing = Some(log[d].closure)
              /\ DOMAIN log[i].values =
                    {ParametersOf(log[i].fn)[p].lexeme :
                       p \in 1..Len(log[i].args)}
              /\ \A p \in 1..Len(log[i].args) :
                    log[i].values[ParametersOf(log[i].fn)[p].lexeme] =
                        log[i].args[p]
    /\ (Ended /\ source = CallerLocalProgram) =>
          /\ out = <<>>
          /\ errors = <<RuntimeError(1, MsgUndefinedVariable("x"))>>
    /\ \A start \in 0..MaxDepth :
          (Ended /\ source = RecursiveProgram(start)) =>
              /\ errors = <<>>
              /\ Texts(out) = [i \in 1..(MaxDepth - start + 1) |->
                                 ToString(MaxDepth + 1 - i)]
    /\ \A n \in 0..MaxArity :
          (Ended /\ source = BindProgram(n)) =>
              /\ errors = <<>>
              /\ Texts(out) = [i \in 1..n |-> ToString(i)]
    /\ (Ended /\ source = TwoFramesProgram) =>
          /\ errors = <<>>
          /\ Texts(out) = <<"1", "2">>

\* a function declared at top level was called from inside a block, in a
\* frame that encloses the globals and not the block
C24_CalledFromBlock ==
    /\ Ended
    /\ source = CallerLocalProgram
    /\ \E i \in 1..Len(log) :
         /\ log[i].ev = "call"
         /\ log[i].caller # Globals
         /\ heap[log[i].frame].enclosing = Some(Globals)
         /\ "x" \in DOMAIN heap[log[i].caller].values
====
